---- MODULE Spec2Model ----
(***************************************************************************)
(* Banana-Zoom (src/Home.tsx): the Home component's state, its handlers    *)
(* and the asynchronous callbacks they leave in flight (image loads, the   *)
(* enhancement run, the regenerate chain, the pixel reveal).                *)
(*                                                                         *)
(* Every handler and every callback is one atomic action: JavaScript runs  *)
(* a task and the microtasks it queues to completion, and React re-renders *)
(* before the next task.  A handler reached from the UI reads the state of *)
(* the latest render; an asynchronous continuation reads the values its    *)
(* closure captured when it was created.                                   *)
(***************************************************************************)
EXTENDS Integers, Sequences, FiniteSets, TLC

\* ---------------------------------------------------------------- bounds
MaxSteps == 3      \* longest History the model lets a commit build
MaxResets == 1     \* clicks on Reset in one behaviour
MaxPending == 2    \* tasks in flight beyond which the user starts no further one
MaxRuns == 1       \* enhancement runs in flight beyond which the user confirms no selection
MaxOps == 4        \* button clicks and file drops in one behaviour (staging clicks apart)
MaxOpsReset == 5   \* the same in the behaviours of SpecReset
MaxOpsRun == 3     \* the same in the behaviours of SpecRun
MaxOpsLive == 2    \* the same in the behaviours of SpecLive
MaxOpsStage == 2   \* the same in the behaviours of SpecStage
MaxOpsCrop == 2    \* the same in the behaviours of SpecCrop
MaxOpsExport == 3  \* the same in the behaviours of SpecExport
MaxPixels == 5     \* pixels of the largest canvas a reveal of SpecReveal runs on
MaxSide == 2       \* widest and tallest image, in pixels, a fixed-box click is tried on
SignificandBits == 3   \* bits of the significand of a number (a double has 53)
MaxCoord == 20     \* largest coordinate of a rectangle given to interpolateRect
EaseFine == 2      \* arguments of easeInOutCubic tried between two frame fractions f / 30
MaxTickPixels == 121   \* pixels of the largest canvas whose reveal is followed tick by tick

\* ---------------------------------------------------------------- values
NULL == [null |-> TRUE]

\* AppState, Home.tsx:11-18 (SELECTING is never assigned)
AppStates == {"IDLE", "LOADING", "LOADED", "ENHANCING", "ENHANCED"}

\* the selection boxes a click can produce (ImageDisplay.handleMouseDown)
RectIds == {"R1"}

\* the files the user can drop; a data URL is determined by the file
Files == {"F1"}

\* serviceDescribeImage: the model's answer, or the fallback description
FallbackDescription == [selectionDescription |-> "user selected a region to enhance"]
Descriptions ==
    {FallbackDescription, [selectionDescription |-> "d1", prompt |-> "p1"], [other |-> "o1"]}

\* what ai.models.generateContent can answer to serviceDescribeImage
\* (Home.tsx:154-170): it throws; the response has no text; the text holds no
\* JSON (extractJson gives null); the text is the JSON of a description; the
\* text is JSON of another shape, which extractJson hands on as it is
DescribeResponses == {"throws", "noText", "noJson", "json", "otherJson"}
DescribeFailures == {"throws", "noText", "noJson"}

\* a serviceDescribeImage that gives no description when the API fails
serviceDescribeImageOrNull(imageDataUrl, descriptions, response) ==
    IF imageDataUrl = NULL \/ response \in DescribeFailures THEN NULL
    ELSE IF response = "otherJson" THEN [other |-> "o1"]
    ELSE [selectionDescription |-> "d1", prompt |-> "p1"]

\* serviceDescribeImage (Home.tsx:101-175) for a data URL with base64 data,
\* given the answer of the API
serviceDescribeImage(imageDataUrl, descriptions, response) ==
    IF imageDataUrl = NULL THEN FallbackDescription
    ELSE IF response = "throws" THEN FallbackDescription
    ELSE IF response = "noText" THEN FallbackDescription
    ELSE IF response = "noJson" THEN FallbackDescription
    ELSE IF response = "otherJson" THEN [other |-> "o1"]
    ELSE [selectionDescription |-> "d1", prompt |-> "p1"]

\* description.prompt without the '' that stands in for a missing prompt: the
\* missing prompt reaches the list as the text "undefined"
PromptOfUndefined(d) == IF "prompt" \in DOMAIN d THEN d.prompt ELSE "undefined"

\* description.prompt || '' (Home.tsx:959, 1078)
PromptOf(d) == IF "prompt" \in DOMAIN d THEN d.prompt ELSE ""

\* [...descriptionHistory.map(d => d.prompt || ''), description.prompt || '']
Prompts(descriptionHistory, description) ==
    [i \in 1..Len(descriptionHistory) |-> PromptOf(descriptionHistory[i])]
        \o <<PromptOf(description)>>

\* what ai.models.generateContent can answer to serviceEnhance
\* (Home.tsx:198-237): it throws; the prompt was blocked; there are no
\* candidates; the candidate has no parts; no part holds inline data; a part
\* holds an image; a part holds data no image element can decode
EnhanceResponses ==
    {"throws", "blocked", "noCandidates", "noParts", "noInlineData", "image", "badImage"}
EnhanceFailures == {"throws", "blocked", "noCandidates", "noParts", "noInlineData"}

\* a serviceEnhance that lets the failure reach its caller
serviceEnhanceRethrows(croppedImageDataUrl, prompts, response) ==
    IF prompts = <<>> \/ response \in EnhanceFailures
    THEN [threw |-> TRUE, imageSrc |-> NULL]
    ELSE [threw |-> FALSE,
          imageSrc |-> [k |-> "generated", from |-> croppedImageDataUrl,
                        decodes |-> response = "image"]]

\* serviceEnhance (Home.tsx:178-245), given the answer of the API: the data
\* URL it resolves to; it never rejects
serviceEnhance(croppedImageDataUrl, prompts, response) ==
    IF prompts = <<>>
    THEN [threw |-> FALSE, imageSrc |-> croppedImageDataUrl]
    ELSE IF response \in {"throws", "blocked", "noCandidates", "noParts"}
    THEN [threw |-> FALSE, imageSrc |-> croppedImageDataUrl]
    ELSE IF response = "noInlineData"
    THEN [threw |-> FALSE, imageSrc |-> croppedImageDataUrl]
    ELSE [threw |-> FALSE,
          imageSrc |-> [k |-> "generated", from |-> croppedImageDataUrl,
                        decodes |-> response = "image"]]

\* what runEnhancementJob and handleRegenerate make of serviceEnhance's result
\* (Home.tsx:960-983, 1079-1100): the image of the model ("ai"), the padded
\* crop they sent, unchanged ("same"), or a rejection, the call having thrown
\* or the image element having fired onerror ("reject")
EnhanceOutcomes == {"ai", "same", "reject"}

\* a caller that takes the image it sent, come back unchanged, for a failure
EnhanceOutcomeUnchangedRejected(result, sent) ==
    IF result.threw \/ result.imageSrc = sent THEN "reject"
    ELSE IF result.imageSrc.decodes THEN "ai"
    ELSE "reject"

EnhanceOutcome(result, sent) ==
    IF result.threw THEN "reject"
    ELSE IF result.imageSrc = sent THEN "same"
    ELSE IF result.imageSrc.decodes THEN "ai"
    ELSE "reject"

\* image sources: an object URL of the fetched default image, the data URL of
\* a dropped file, the data URL of a crop
ObjectUrl(n) == [k |-> "url", n |-> n]
FileUrl(f) == [k |-> "file", f |-> f]

\* cropImage, as far as the program can tell two results apart: the data URL
\* is determined by the source image, the rectangle and the way it is drawn
cropImage(img, cropRect, how) == [k |-> "crop", of |-> img, rect |-> cropRect, how |-> how]

\* the size of a selection box: the fixed box is a share of the image
\* (Home.tsx:498-499), 100 x 75 for an image of 800 x 600 and a share of 12.5%
RectSize(cropRect) == [w |-> 100, h |-> 75]

\* the width of the raster an enhancement ends with (Home.tsx:975, 1090)
finalImageWidth == 1024

\* targetWidth and targetHeight of the cropImage call that made a step's
\* image: twice the selection for the catch block's crop (Home.tsx:983),
\* finalImageWidth at the selection's aspect ratio otherwise (Home.tsx:975-977)
CropSize(src) ==
    LET r == RectSize(src.rect)
    IN  IF src.how[1] = "twice" THEN [w |-> 2 * r.w, h |-> 2 * r.h]
        ELSE IF src.how[1] = "pixelated" THEN r
        ELSE [w |-> finalImageWidth, h |-> (2 * finalImageWidth * r.h + r.w) \div (2 * r.w)]

\* croppedForEnhancement: the selection padded by `padding` percent of its
\* size and clamped to the image (Home.tsx:945-958, 1064-1077)
croppedForEnhancement(img, cropRect, padding) == cropImage(img, cropRect, <<"padded", padding>>)

\* HistoryStep, Home.tsx:32-36
HistoryStep(src, description, rect) ==
    [imageSrc |-> src, description |-> description, originalRect |-> rect]

\* Array.prototype.slice(0, end) on a 1-based sequence
Slice(s, end) == SubSeq(s, 1, IF end < 0 THEN 0 ELSE IF end > Len(s) THEN Len(s) ELSE end)

\* history[i] for a 0-based index; undefined (NULL) outside the array
At(s, i) == IF i >= 0 /\ i < Len(s) THEN s[i + 1] ELSE NULL

\* remove the element at position i of a sequence
Drop(s, i) == SubSeq(s, 1, i - 1) \o SubSeq(s, i + 1, Len(s))

\* ---------------------------------------------------------------- state
VARIABLES
    appState, image, pixelatedImageSrc, enhancedImageSrc, finalImageSrc,
    history, historyIndex, newHistoryEntryData, enhancementJob,
    finalEnhancementRect, displaySelection, isGeneratingGif, stagedSelection,
    isProcessing,
    imageObjectURLRef,   \* the ref holding the current object URL
    urls,                \* object URLs created so far (URL.createObjectURL)
    revoked,             \* object URLs revoked so far (URL.revokeObjectURL)
    loads,               \* image loads and fetches in flight, with their callbacks
    runs,                \* runEnhancementJob invocations awaiting an external call
    regens,              \* handleRegenerate chains awaiting an external call
    onCompleteCalled,    \* SelectionAnimator's onCompleteCalled ref
    dissolveLoading,     \* PixelDissolve effects whose two images are loading
    dissolveTicking,     \* PixelDissolve animations running, oldest first
    resets,              \* clicks on Reset so far (bounded)
    budget,              \* button clicks and file drops the user has left (bounded)
    lastOp               \* the last operation on History and the History it found

home == <<appState, image, pixelatedImageSrc, enhancedImageSrc, finalImageSrc,
          history, historyIndex, newHistoryEntryData, enhancementJob,
          finalEnhancementRect, displaySelection, isGeneratingGif,
          stagedSelection, isProcessing>>
env == <<imageObjectURLRef, urls, revoked, loads, runs, regens, resets, budget>>
view == <<onCompleteCalled, dissolveLoading, dissolveTicking>>
vars == <<home, env, view, lastOp>>

\* ------------------------------------------------- what the render mounts
\* Home.tsx:1141: <SelectionAnimator> is rendered
SelectionAnimatorMounted(job, st, fer) == job # NULL /\ st = "ENHANCING" /\ fer # NULL

\* the empty string cropImage resolves to when the canvas gives no 2d
\* context (Home.tsx:75-77); like null it is falsy
EmptyDataUrl == [k |-> "empty"]

\* Home.tsx:1142: <PixelDissolve> is rendered
PixelDissolveMounted(st, pix, enh, fer) ==
    /\ st = "ENHANCED" /\ fer # NULL
    /\ pix \notin {NULL, EmptyDataUrl} /\ enh \notin {NULL, EmptyDataUrl}

\* an <ImageDisplay> rendered whenever there is an image to show
ImageDisplayAlwaysMounted(fin, st) == fin # NULL

\* Home.tsx:1124: <ImageDisplay> is rendered
ImageDisplayMounted(fin, st) == fin # NULL /\ st \notin {"ENHANCED", "ENHANCING"}

\* Home.tsx:1129, 1148: the action bar (Undo, Redo, Re-gen, Export, Reset, or
\* Cancel and Process) is rendered
ActionBarShown == appState = "LOADED" /\ Len(history) >= 1

\* the values handleEnhancementComplete closes over (its useCallback
\* dependencies, Home.tsx:1011), captured by startAnimation when the effect runs
Closure(enh, entry, h, i) ==
    [enhancedImageSrc |-> enh, newHistoryEntryData |-> entry, history |-> h, historyIndex |-> i]

\* an image element given this source fires onload (a revoked object URL
\* cannot be fetched any more: it fires onerror)
Loads(src, gone) == src \notin gone

\* a commit that leaves the chains of an unmounted PixelDissolve running
RenderKeepsChains(called, loading, ticking) ==
    LET saWas == SelectionAnimatorMounted(enhancementJob, appState, finalEnhancementRect)
        saIs == SelectionAnimatorMounted(enhancementJob', appState', finalEnhancementRect')
        pdWas == PixelDissolveMounted(appState, pixelatedImageSrc, enhancedImageSrc,
                                      finalEnhancementRect)
        pdIs == PixelDissolveMounted(appState', pixelatedImageSrc', enhancedImageSrc',
                                     finalEnhancementRect')
        fresh == Closure(enhancedImageSrc', newHistoryEntryData', history', historyIndex')
        same == /\ pixelatedImageSrc' = pixelatedImageSrc
                /\ fresh = Closure(enhancedImageSrc, newHistoryEntryData, history, historyIndex)
    IN  /\ onCompleteCalled' = (saWas /\ saIs /\ called)
        /\ dissolveLoading' = IF ~pdIs THEN loading
                              ELSE IF ~pdWas THEN Append(loading, fresh)
                              ELSE IF same THEN loading
                              ELSE Append(loading, fresh)
        /\ dissolveTicking' = IF ~pdIs \/ ~pdWas THEN ticking
                              ELSE IF same THEN ticking
                              ELSE SubSeq(ticking, 1, Len(ticking) - 1)

\* React's commit after an action.  called, loading and ticking are
\* onCompleteCalled, dissolveLoading and dissolveTicking as the action itself
\* left them; the primed Home variables are the state being rendered.
\*  - SelectionAnimator: a new instance starts with onCompleteCalled = false;
\*  - PixelDissolve (Home.tsx:637-660): the effect runs on mount and whenever
\*    lowResSrc, highResSrc or startAnimation (that is, onComplete) changes; its
\*    cleanup cancels the frame animationFrameId holds, which is the frame of
\*    the animation started last, and the loads of a previous effect are not
\*    cancelled; after unmount canvasRef.current is null and every chain stops;
Render(called, loading, ticking) ==
    LET saWas == SelectionAnimatorMounted(enhancementJob, appState, finalEnhancementRect)
        saIs == SelectionAnimatorMounted(enhancementJob', appState', finalEnhancementRect')
        pdWas == PixelDissolveMounted(appState, pixelatedImageSrc, enhancedImageSrc,
                                      finalEnhancementRect)
        pdIs == PixelDissolveMounted(appState', pixelatedImageSrc', enhancedImageSrc',
                                     finalEnhancementRect')
        fresh == Closure(enhancedImageSrc', newHistoryEntryData', history', historyIndex')
        same == /\ pixelatedImageSrc' = pixelatedImageSrc
                /\ fresh = Closure(enhancedImageSrc, newHistoryEntryData, history, historyIndex)
    IN  /\ onCompleteCalled' = (saWas /\ saIs /\ called)
        /\ dissolveLoading' = IF ~pdIs THEN <<>>
                              ELSE IF ~pdWas THEN <<fresh>>
                              ELSE IF same THEN loading
                              ELSE Append(loading, fresh)
        /\ dissolveTicking' = IF ~pdIs \/ ~pdWas THEN <<>>
                              ELSE IF same THEN ticking
                              ELSE SubSeq(ticking, 1, Len(ticking) - 1)

\* the bound on concurrency: the user starts a further asynchronous task (an
\* image load, an enhancement run, a regenerate chain) only while fewer than
\* MaxPending are in flight
InFlight ==
    Cardinality(loads) + Cardinality(runs) + Cardinality(regens)
        + Len(dissolveLoading) + Len(dissolveTicking)

Quiet == InFlight < MaxPending /\ budget > 0

\* an action that touches no component state of its own
Rerender == Render(onCompleteCalled, dissolveLoading, dissolveTicking)

\* the record of an operation on History: its name, the History it found, a
\* flag (for a click on Undo, Redo or Re-gen: the handler was busy; for the
\* end of a regenerate chain: History had changed since the click; for a
\* load: an enhancement or a reveal was going on), and the
\* operation on History before it with the History that one found
Op(name, flag) ==
    [op |-> name, history |-> history, historyIndex |-> historyIndex, flag |-> flag,
     prevOp |-> lastOp.op, prevHistory |-> lastOp.history,
     prevIndex |-> lastOp.historyIndex]

\* ---------------------------------------------------------------- Init
\* the state after the first render and its mount effect (Home.tsx:789-802,
\* 857-864): every useState at its initial value, loadInitialImage called; the
\* user has `clicks` button clicks and file drops ahead
Start(clicks) ==
    /\ appState = "LOADING"
    /\ image = NULL /\ pixelatedImageSrc = NULL /\ enhancedImageSrc = NULL
    /\ finalImageSrc = NULL
    /\ history = <<>> /\ historyIndex = -1
    /\ newHistoryEntryData = NULL /\ enhancementJob = NULL
    /\ finalEnhancementRect = NULL /\ displaySelection = NULL
    /\ isGeneratingGif = FALSE /\ stagedSelection = NULL /\ isProcessing = FALSE
    /\ imageObjectURLRef = NULL /\ urls = {} /\ revoked = {}
    /\ loads = {[kind |-> "fetch", n |-> 0]}
    /\ runs = {} /\ regens = {}
    /\ onCompleteCalled = FALSE
    /\ dissolveLoading = <<>> /\ dissolveTicking = <<>>
    /\ resets = 0 /\ budget = clicks
    /\ lastOp = [op |-> "init", history |-> <<>>, historyIndex |-> -1, flag |-> FALSE,
                 prevOp |-> "init", prevHistory |-> <<>>, prevIndex |-> -1]

Init == Start(MaxOps)

\* ---------------------------------------------------------------- loading
\* URL.revokeObjectURL(imageObjectURLRef.current) when the ref is set
Revoke == IF imageObjectURLRef # NULL THEN revoked \cup {imageObjectURLRef} ELSE revoked

\* loadInitialImage up to its first await (Home.tsx:808-815), for fetch number n
loadInitialImage(n) ==
    /\ revoked' = Revoke
    /\ imageObjectURLRef' = NULL
    /\ appState' = "LOADING"
    /\ loads' = loads \cup {[kind |-> "fetch", n |-> n]}

\* resetState (Home.tsx:845-855), the Reset button of the action bar
resetState ==
    /\ ActionBarShown /\ stagedSelection = NULL
    /\ resets < MaxResets /\ Quiet
    /\ resets' = resets + 1 /\ budget' = budget - 1
    /\ enhancementJob' = NULL
    /\ finalEnhancementRect' = NULL
    /\ history' = <<>>
    /\ historyIndex' = -1
    /\ newHistoryEntryData' = NULL
    /\ displaySelection' = NULL
    /\ stagedSelection' = NULL
    /\ isProcessing' = FALSE
    /\ loadInitialImage(resets + 1)
    /\ lastOp' = Op("reset", FALSE)
    /\ UNCHANGED <<image, pixelatedImageSrc, enhancedImageSrc, finalImageSrc,
                   isGeneratingGif, urls, runs, regens>>
    /\ Rerender

\* loadInitialImage after the fetch and the blob (Home.tsx:816-838): a new
\* object URL is created, kept in the ref and given to an image element
FetchDone(l) ==
    /\ l \in loads /\ l.kind = "fetch"
    /\ LET url == ObjectUrl(Cardinality(urls) + 1)
       IN  /\ urls' = urls \cup {url}
           /\ imageObjectURLRef' = url
           /\ loads' = (loads \ {l}) \cup {[kind |-> "initial", src |-> url]}
    /\ UNCHANGED <<home, revoked, runs, regens, resets, budget, lastOp>>
    /\ Rerender

\* loadInitialImage, the fetch threw or answered not ok (Home.tsx:816, 839-842)
FetchFailed(l) ==
    /\ l \in loads /\ l.kind = "fetch"
    /\ loads' = loads \ {l}
    /\ appState' = "IDLE"
    /\ UNCHANGED <<image, pixelatedImageSrc, enhancedImageSrc, finalImageSrc, history,
                   historyIndex, newHistoryEntryData, enhancementJob,
                   finalEnhancementRect, displaySelection, isGeneratingGif,
                   stagedSelection, isProcessing>>
    /\ UNCHANGED <<imageObjectURLRef, urls, revoked, runs, regens, resets, budget, lastOp>>
    /\ Rerender

\* a load that adds the loaded image to the History it finds
LoadedHistoryAppended(src) == Append(history, HistoryStep(src, NULL, NULL))

\* the History an image load leaves: setHistory([newStep]) with the loaded
\* image and neither description nor rectangle (Home.tsx:822-823, 879-880)
LoadedHistory(src) == <<HistoryStep(src, NULL, NULL)>>

\* img.onload of loadInitialImage (Home.tsx:821-829)
InitialLoaded(l) ==
    /\ l \in loads /\ l.kind = "initial"
    /\ loads' = loads \ {l}
    /\ history' = LoadedHistory(l.src)
    /\ historyIndex' = 0
    /\ image' = l.src
    /\ finalImageSrc' = l.src
    /\ displaySelection' = NULL
    /\ appState' = "LOADED"
    /\ lastOp' = Op("load", appState \in {"ENHANCING", "ENHANCED"})
    /\ UNCHANGED <<pixelatedImageSrc, enhancedImageSrc, newHistoryEntryData,
                   enhancementJob, finalEnhancementRect, isGeneratingGif,
                   stagedSelection, isProcessing>>
    /\ UNCHANGED <<imageObjectURLRef, urls, revoked, runs, regens, resets, budget>>
    /\ Rerender

\* img.onerror of loadInitialImage (Home.tsx:830-837): the blob is no image
InitialError(l) ==
    /\ l \in loads /\ l.kind = "initial"
    /\ loads' = loads \ {l}
    /\ appState' = "IDLE"
    /\ revoked' = Revoke
    /\ imageObjectURLRef' = NULL
    /\ UNCHANGED <<image, pixelatedImageSrc, enhancedImageSrc, finalImageSrc, history,
                   historyIndex, newHistoryEntryData, enhancementJob,
                   finalEnhancementRect, displaySelection, isGeneratingGif,
                   stagedSelection, isProcessing>>
    /\ UNCHANGED <<urls, runs, regens, resets, budget, lastOp>>
    /\ Rerender

\* handleFileDrop (Home.tsx:866-892), reached by a drop in any state or by the
\* file input; readable: the file is an image the browser can decode (otherwise
\* neither reader.onload nor img.onload changes anything)
handleFileDrop(f, readable) ==
    /\ Quiet
    /\ revoked' = Revoke
    /\ imageObjectURLRef' = NULL
    /\ loads' = IF readable THEN loads \cup {[kind |-> "file", src |-> FileUrl(f)]} ELSE loads
    /\ budget' = budget - 1
    /\ UNCHANGED <<home, urls, runs, regens, resets, lastOp>>
    /\ Rerender

\* img.onload of handleFileDrop (Home.tsx:875-887)
FileLoaded(l) ==
    /\ l \in loads /\ l.kind = "file"
    /\ loads' = loads \ {l}
    /\ history' = LoadedHistory(l.src)
    /\ historyIndex' = 0
    /\ image' = l.src
    /\ finalImageSrc' = l.src
    /\ enhancementJob' = NULL
    /\ finalEnhancementRect' = NULL
    /\ displaySelection' = NULL
    /\ stagedSelection' = NULL
    /\ appState' = "LOADED"
    /\ lastOp' = Op("load", appState \in {"ENHANCING", "ENHANCED"})
    /\ UNCHANGED <<pixelatedImageSrc, enhancedImageSrc, newHistoryEntryData,
                   isGeneratingGif, isProcessing>>
    /\ UNCHANGED <<imageObjectURLRef, urls, revoked, runs, regens, resets, budget>>
    /\ Rerender

\* ---------------------------------------------------------------- staging
\* ImageDisplay's own image state (Home.tsx:373-381): the image of its imageSrc
\* prop once the load its effect starts has fired onload.  The load of a source
\* that is already decoded is taken to end before the next event, so the
\* component holds the image of finalImageSrc whenever that source loads.
dispImage ==
    IF ImageDisplayMounted(finalImageSrc, appState) /\ Loads(finalImageSrc, revoked)
    THEN finalImageSrc ELSE NULL

\* a staging click that also drops the steps beyond the cursor
handleMouseDownTruncating(r) ==
    /\ ImageDisplayMounted(finalImageSrc, appState)
    /\ IF appState = "ENHANCING" \/ isGeneratingGif \/ dispImage = NULL
       THEN UNCHANGED vars
       ELSE /\ stagedSelection' =
                  [originalRect |-> [id |-> r, space |-> dispImage], screenRect |-> r]
            /\ history' = SubSeq(history, 1, historyIndex + 1)
            /\ UNCHANGED <<appState, image, pixelatedImageSrc, enhancedImageSrc,
                           finalImageSrc, historyIndex, newHistoryEntryData,
                           enhancementJob, finalEnhancementRect, displaySelection,
                           isGeneratingGif, isProcessing>>
            /\ UNCHANGED <<imageObjectURLRef, urls, revoked, loads, runs, regens, resets, budget,
                           lastOp>>
            /\ Rerender

\* ImageDisplay.handleMouseDown with the fixed selection box (Home.tsx:483-521)
\* and handleStageSelection (Home.tsx:902-904): a click inside the displayed
\* image that gives the box r.  The box is in the coordinate space of the image
\* ImageDisplay holds, which the rectangle carries along as `space`.
handleMouseDown(r) ==
    /\ ImageDisplayMounted(finalImageSrc, appState)
    /\ IF appState = "ENHANCING" \/ isGeneratingGif \/ dispImage = NULL
       THEN UNCHANGED vars
       ELSE /\ stagedSelection' =
                  [originalRect |-> [id |-> r, space |-> dispImage], screenRect |-> r]
            /\ UNCHANGED <<appState, image, pixelatedImageSrc, enhancedImageSrc,
                           finalImageSrc, history, historyIndex, newHistoryEntryData,
                           enhancementJob, finalEnhancementRect, displaySelection,
                           isGeneratingGif, isProcessing>>
            /\ UNCHANGED <<imageObjectURLRef, urls, revoked, loads, runs, regens, resets, budget,
                           lastOp>>
            /\ Rerender

\* the Cancel button (Home.tsx:1152)
CancelSelection ==
    /\ ActionBarShown /\ stagedSelection # NULL
    /\ stagedSelection' = NULL
    /\ UNCHANGED <<appState, image, pixelatedImageSrc, enhancedImageSrc, finalImageSrc,
                   history, historyIndex, newHistoryEntryData, enhancementJob,
                   finalEnhancementRect, displaySelection, isGeneratingGif, isProcessing>>
    /\ UNCHANGED <<env, lastOp>>
    /\ Rerender

\* a startEnhancementProcess that leaves the undone steps in History
startEnhancementProcessKeeping(originalRect, screenRect) ==
    /\ history' = history
    /\ appState' = "ENHANCING"
    /\ finalEnhancementRect' = [fits |-> originalRect.id]
    /\ enhancementJob' = [originalRect |-> originalRect,
                          pixelatedSrc |-> cropImage(image, originalRect, <<"pixelated", 0>>),
                          screenRect |-> screenRect]

\* startEnhancementProcess (Home.tsx:906-927) with the microtask of its
\* cropImage(...).then, which runs before any other task
startEnhancementProcess(originalRect, screenRect) ==
    /\ history' = IF historyIndex < Len(history) - 1
                  THEN Slice(history, historyIndex + 1) ELSE history
    /\ appState' = "ENHANCING"
    /\ finalEnhancementRect' = [fits |-> originalRect.id]
    /\ enhancementJob' = [originalRect |-> originalRect,
                          pixelatedSrc |-> cropImage(image, originalRect, <<"pixelated", 0>>),
                          screenRect |-> screenRect]

\* handleProcessClick (Home.tsx:929-933), the Process button
handleProcessClick ==
    /\ ActionBarShown /\ stagedSelection # NULL
    /\ historyIndex + 2 <= MaxSteps /\ Quiet /\ Cardinality(runs) < MaxRuns
    /\ IF image = NULL
       THEN UNCHANGED <<history, appState, finalEnhancementRect, enhancementJob>>
       ELSE startEnhancementProcess(stagedSelection.originalRect, stagedSelection.screenRect)
    /\ stagedSelection' = NULL
    /\ lastOp' = Op("confirm", FALSE)
    /\ UNCHANGED <<image, pixelatedImageSrc, enhancedImageSrc, finalImageSrc,
                   historyIndex, newHistoryEntryData, displaySelection, isGeneratingGif,
                   isProcessing>>
    /\ budget' = budget - 1
    /\ UNCHANGED <<imageObjectURLRef, urls, revoked, loads, runs, regens, resets>>
    /\ Rerender

\* the non-null descriptions of history[0 .. end-1] (Home.tsx:940, 1059)
RECURSIVE DescriptionsOf(_)
DescriptionsOf(h) ==
    IF h = <<>> THEN <<>>
    ELSE IF h[1].description = NULL THEN DescriptionsOf(Tail(h))
    ELSE <<h[1].description>> \o DescriptionsOf(Tail(h))

\* a run that awaits serviceEnhance first
FirstAwaitEnhance == "enhance"

\* the external call a run and a regenerate chain await first: describe
\* (Home.tsx:941, 1061), and serviceEnhance only with its answer (960, 1079)
FirstAwait == "describe"

\* runEnhancementJob up to its first await (Home.tsx:935-941), called by
\* SelectionAnimator.handleTransitionEnd once per instance (Home.tsx:680-685)
runEnhancementJob ==
    /\ SelectionAnimatorMounted(enhancementJob, appState, finalEnhancementRect)
    /\ ~onCompleteCalled
    /\ IF image = NULL
       THEN UNCHANGED <<isProcessing, runs>>
       ELSE /\ isProcessing' = TRUE
            /\ runs' = runs \cup
                 {[pc |-> FirstAwait, job |-> enhancementJob, image |-> image,
                   descriptionHistory |-> DescriptionsOf(Slice(history, historyIndex + 1)),
                   description |-> NULL]}
    /\ UNCHANGED <<appState, image, pixelatedImageSrc, enhancedImageSrc, finalImageSrc,
                   history, historyIndex, newHistoryEntryData, enhancementJob,
                   finalEnhancementRect, displaySelection, isGeneratingGif,
                   stagedSelection>>
    /\ UNCHANGED <<imageObjectURLRef, urls, revoked, loads, regens, resets, budget, lastOp>>
    /\ Render(TRUE, dissolveLoading, dissolveTicking)

\* the description serviceDescribeImage gives the run for the canvas with the
\* selection drawn on it (Home.tsx:941)
RunDescription(run, response) ==
    serviceDescribeImage(cropImage(run.image, run.job.originalRect, <<"canvas", 0>>),
                         run.descriptionHistory, response)

\* runEnhancementJob after serviceDescribeImage, which never throws
\* (Home.tsx:941-942, 101-175)
RunDescribed(run, d) ==
    /\ run \in runs /\ run.pc = "describe"
    /\ newHistoryEntryData' = [description |-> d, originalRect |-> run.job.originalRect]
    /\ runs' = (runs \ {run}) \cup {[run EXCEPT !.pc = "enhance", !.description = d]}
    /\ UNCHANGED <<appState, image, pixelatedImageSrc, enhancedImageSrc, finalImageSrc,
                   history, historyIndex, enhancementJob, finalEnhancementRect,
                   displaySelection, isGeneratingGif, stagedSelection, isProcessing>>
    /\ UNCHANGED <<imageObjectURLRef, urls, revoked, loads, regens, resets, budget, lastOp>>
    /\ Rerender

\* the padding around the selection, in percent of its size, that
\* runEnhancementJob (Home.tsx:945) and handleRegenerate (Home.tsx:1064) send
paddingEnhance == 25
paddingRegenerate == 50

\* the image an enhancement ends with: the result of serviceEnhance for the
\* selection padded by `padding` percent, cropped back to the selection
\* (Home.tsx:944-977, 1063-1092), or, when the result does not load, the catch
\* block's crop of the selection at twice its size (Home.tsx:981-983)
EnhancedSrc(img, rect, outcome, padding) ==
    cropImage(img, rect, IF outcome = "reject" THEN <<"twice", 0>> ELSE <<outcome, padding>>)

\* the outcome of the run's call of serviceEnhance (Home.tsx:958-968)
RunOutcome(run, response) ==
    LET cropped == croppedForEnhancement(run.image, run.job.originalRect, paddingEnhance)
    IN  EnhanceOutcome(
            serviceEnhance(cropped, Prompts(run.descriptionHistory, run.description), response),
            cropped)

\* runEnhancementJob from serviceEnhance's answer to its end (Home.tsx:960-990)
RunFinished(run, outcome) ==
    /\ run \in runs /\ run.pc = "enhance"
    /\ runs' = runs \ {run}
    /\ pixelatedImageSrc' = run.job.pixelatedSrc
    /\ enhancedImageSrc' = EnhancedSrc(run.image, run.job.originalRect, outcome, paddingEnhance)
    /\ appState' = "ENHANCED"
    /\ enhancementJob' = NULL
    /\ isProcessing' = FALSE
    /\ UNCHANGED <<image, finalImageSrc, history, historyIndex, newHistoryEntryData,
                   finalEnhancementRect, displaySelection, isGeneratingGif,
                   stagedSelection>>
    /\ UNCHANGED <<imageObjectURLRef, urls, revoked, loads, regens, resets, budget, lastOp>>
    /\ Rerender

\* ---------------------------------------------------------------- reveal
\* PixelDissolve: Promise.all of an effect's two image loads resolves and
\* startAnimation begins ticking (Home.tsx:652-654, 580-634)
DissolveLoaded(i) ==
    /\ i \in 1..Len(dissolveLoading)
    /\ UNCHANGED <<home, env, lastOp>>
    /\ Render(onCompleteCalled, Drop(dissolveLoading, i),
              Append(dissolveTicking, dissolveLoading[i]))

\* handleEnhancementComplete (Home.tsx:993-1011) as the closure c sees it: the
\* History it writes
CommitHistory(c) ==
    Slice(c.history, c.historyIndex + 1) \o
        <<HistoryStep(c.enhancedImageSrc, c.newHistoryEntryData.description,
                      c.newHistoryEntryData.originalRect)>>

\* a handleEnhancementComplete that leaves the cursor where the closure saw it
CommitIndexStays(c) == c.historyIndex

CommitIndex(c) == Len(Slice(c.history, c.historyIndex + 1))

\* PixelDissolve's animate finds every pixel revealed and calls onComplete
\* (Home.tsx:615-618): the animation started first ends first
DissolveComplete ==
    /\ dissolveTicking # <<>>
    /\ LET c == Head(dissolveTicking)
       IN  IF c.enhancedImageSrc # NULL /\ c.newHistoryEntryData # NULL
           THEN /\ CommitIndex(c) + 1 <= MaxSteps
                /\ history' = CommitHistory(c)
                /\ historyIndex' = CommitIndex(c)
                /\ loads' = loads \cup {[kind |-> "commit", src |-> c.enhancedImageSrc]}
                /\ lastOp' = Op("commit", FALSE)
           ELSE UNCHANGED <<history, historyIndex, loads, lastOp>>
    /\ UNCHANGED <<appState, image, pixelatedImageSrc, enhancedImageSrc, finalImageSrc,
                   newHistoryEntryData, enhancementJob, finalEnhancementRect,
                   displaySelection, isGeneratingGif, stagedSelection, isProcessing>>
    /\ UNCHANGED <<imageObjectURLRef, urls, revoked, runs, regens, resets, budget>>
    /\ Render(onCompleteCalled, dissolveLoading, Tail(dissolveTicking))

\* newImage.onload of handleEnhancementComplete (Home.tsx:1000-1008)
CommitLoaded(l) ==
    /\ l \in loads /\ l.kind = "commit"
    /\ loads' = loads \ {l}
    /\ image' = l.src
    /\ finalImageSrc' = l.src
    /\ enhancedImageSrc' = NULL
    /\ finalEnhancementRect' = NULL
    /\ newHistoryEntryData' = NULL
    /\ displaySelection' = NULL
    /\ appState' = "LOADED"
    /\ UNCHANGED <<pixelatedImageSrc, history, historyIndex, enhancementJob,
                   isGeneratingGif, stagedSelection, isProcessing>>
    /\ UNCHANGED <<imageObjectURLRef, urls, revoked, runs, regens, resets, budget, lastOp>>
    /\ Rerender

\* ---------------------------------------------------------------- undo, redo
\* an overlay taken from the step at the cursor instead of the one after it
OverlayOfCursorStep(h, i) == IF At(h, i) = NULL THEN NULL ELSE At(h, i).originalRect

\* the overlay handleUndo and handleRedo show: nextStep?.originalRect || null
Overlay(h, i) == IF At(h, i + 1) = NULL THEN NULL ELSE At(h, i + 1).originalRect

\* handleUndo and handleRedo from the new index on (Home.tsx:1025-1032,
\* 1038-1045); history[newIndex] undefined makes .imageSrc throw, after the
\* index and the overlay were set
MoveTo(newIndex) ==
    /\ Quiet
    /\ budget' = budget - 1
    /\ historyIndex' = newIndex
    /\ displaySelection' = Overlay(history, newIndex)
    /\ IF At(history, newIndex) = NULL
       THEN UNCHANGED <<loads, stagedSelection>>
       ELSE /\ loads' = IF Loads(At(history, newIndex).imageSrc, revoked)
                        THEN loads \cup {[kind |-> "nav", src |-> At(history, newIndex).imageSrc]}
                        ELSE loads
            /\ stagedSelection' = NULL

\* the part of the guards of handleUndo, handleRedo and handleRegenerate that
\* does not look at the cursor (Home.tsx:1023, 1036, 1049)
Busy == appState = "ENHANCING" \/ isGeneratingGif

\* a guard of handleUndo that lets the cursor leave index 0
UndoRefusedBelowZero == historyIndex < 0 \/ Busy

\* the guard of handleUndo (Home.tsx:1023) and the button's disabled (1157)
UndoRefused == historyIndex <= 0 \/ Busy

\* the guard of handleRedo (Home.tsx:1036) and the button's disabled (1162)
RedoRefused == historyIndex >= Len(history) - 1 \/ Busy

\* handleUndo (Home.tsx:1022-1033), a click on the Undo button
handleUndo ==
    /\ ActionBarShown /\ stagedSelection = NULL
    /\ IF UndoRefused
       THEN UNCHANGED <<historyIndex, displaySelection, loads, stagedSelection, budget>>
       ELSE MoveTo(historyIndex - 1)
    /\ lastOp' = Op("undo", Busy)
    /\ UNCHANGED <<appState, image, pixelatedImageSrc, enhancedImageSrc, finalImageSrc,
                   history, newHistoryEntryData, enhancementJob, finalEnhancementRect,
                   isGeneratingGif, isProcessing>>
    /\ UNCHANGED <<imageObjectURLRef, urls, revoked, runs, regens, resets>>
    /\ Rerender

\* handleRedo (Home.tsx:1035-1046), a click on the Redo button
handleRedo ==
    /\ ActionBarShown /\ stagedSelection = NULL
    /\ IF RedoRefused
       THEN UNCHANGED <<historyIndex, displaySelection, loads, stagedSelection, budget>>
       ELSE MoveTo(historyIndex + 1)
    /\ lastOp' = Op("redo", Busy)
    /\ UNCHANGED <<appState, image, pixelatedImageSrc, enhancedImageSrc, finalImageSrc,
                   history, newHistoryEntryData, enhancementJob, finalEnhancementRect,
                   isGeneratingGif, isProcessing>>
    /\ UNCHANGED <<imageObjectURLRef, urls, revoked, runs, regens, resets>>
    /\ Rerender

\* img.onload of handleUndo and handleRedo (Home.tsx:1030, 1043)
NavLoaded(l) ==
    /\ l \in loads /\ l.kind = "nav"
    /\ loads' = loads \ {l}
    /\ image' = l.src
    /\ finalImageSrc' = l.src
    /\ UNCHANGED <<appState, pixelatedImageSrc, enhancedImageSrc, history, historyIndex,
                   newHistoryEntryData, enhancementJob, finalEnhancementRect,
                   displaySelection, isGeneratingGif, stagedSelection, isProcessing>>
    /\ UNCHANGED <<imageObjectURLRef, urls, revoked, runs, regens, resets, budget, lastOp>>
    /\ Rerender

\* ---------------------------------------------------------------- regenerate
\* the guard of handleRegenerate (Home.tsx:1049) and the button's disabled (1163)
RegenerateRefused == historyIndex <= 0 \/ Busy

\* handleRegenerate up to sourceImage.src (Home.tsx:1048-1056, 1102), a click on
\* Re-gen.  history[historyIndex] undefined makes .originalRect throw after the
\* first two setState calls; a step without a rectangle returns to LOADED.
handleRegenerate ==
    /\ ActionBarShown /\ stagedSelection = NULL
    /\ IF RegenerateRefused
       THEN UNCHANGED <<appState, stagedSelection, loads, budget>>
       ELSE /\ Quiet
            /\ budget' = budget - 1
            /\ stagedSelection' = NULL
            /\ IF At(history, historyIndex) = NULL
               THEN appState' = "ENHANCING" /\ UNCHANGED loads
               ELSE IF At(history, historyIndex).originalRect = NULL
               THEN appState' = "LOADED" /\ UNCHANGED loads
               ELSE /\ appState' = "ENHANCING"
                    /\ loads' =
                         IF Loads(At(history, historyIndex - 1).imageSrc, revoked)
                         THEN loads \cup
                              {[kind |-> "regenSource",
                                src |-> At(history, historyIndex - 1).imageSrc,
                                history |-> history, historyIndex |-> historyIndex]}
                         ELSE loads
    /\ lastOp' = Op("regenerate", Busy)
    /\ UNCHANGED <<image, pixelatedImageSrc, enhancedImageSrc, finalImageSrc, history,
                   historyIndex, newHistoryEntryData, enhancementJob,
                   finalEnhancementRect, displaySelection, isGeneratingGif, isProcessing>>
    /\ UNCHANGED <<imageObjectURLRef, urls, revoked, runs, regens, resets>>
    /\ Rerender

\* sourceImage.onload of handleRegenerate up to its await of
\* serviceDescribeImage (Home.tsx:1057-1061)
RegenSourceLoaded(l) ==
    /\ l \in loads /\ l.kind = "regenSource"
    /\ loads' = loads \ {l}
    /\ regens' = regens \cup
         {[pc |-> FirstAwait, source |-> l.src, history |-> l.history,
           historyIndex |-> l.historyIndex,
           descriptionHistory |-> DescriptionsOf(Slice(l.history, l.historyIndex)),
           description |-> NULL]}
    /\ UNCHANGED <<home, imageObjectURLRef, urls, revoked, runs, resets, budget, lastOp>>
    /\ Rerender

\* the description serviceDescribeImage gives the chain for the selection
\* cropped from the previous step's image (Home.tsx:1060-1061)
RegenDescription(g, response) ==
    serviceDescribeImage(
        cropImage(g.source, At(g.history, g.historyIndex).originalRect, <<"smooth", 0>>),
        g.descriptionHistory, response)

\* the chain after serviceDescribeImage (Home.tsx:1061-1079)
RegenDescribed(g, d) ==
    /\ g \in regens /\ g.pc = "describe"
    /\ regens' = (regens \ {g}) \cup {[g EXCEPT !.pc = "enhance", !.description = d]}
    /\ UNCHANGED <<home, imageObjectURLRef, urls, revoked, loads, runs, resets, budget, lastOp>>
    /\ Rerender

\* a chain that appends its step after the step at the cursor
RegenHistoryAppends(g, outcome) ==
    Slice(g.history, g.historyIndex + 1) \o
        <<HistoryStep(EnhancedSrc(g.source, At(g.history, g.historyIndex).originalRect,
                                  outcome, paddingRegenerate),
                      g.description, At(g.history, g.historyIndex).originalRect)>>

\* a chain that replaces the step at the cursor and keeps the steps after it
RegenHistoryInPlace(g, outcome) ==
    Slice(g.history, g.historyIndex) \o
        <<HistoryStep(EnhancedSrc(g.source, At(g.history, g.historyIndex).originalRect,
                                  outcome, paddingRegenerate),
                      g.description, At(g.history, g.historyIndex).originalRect)>> \o
        SubSeq(g.history, g.historyIndex + 2, Len(g.history))

\* the History the chain writes (Home.tsx:1093-1094)
RegenHistory(g, outcome) ==
    Slice(g.history, g.historyIndex) \o
        <<HistoryStep(EnhancedSrc(g.source, At(g.history, g.historyIndex).originalRect,
                                  outcome, paddingRegenerate),
                      g.description, At(g.history, g.historyIndex).originalRect)>>

\* the outcome of the chain's call of serviceEnhance (Home.tsx:1077-1083)
RegenOutcome(g, response) ==
    LET cropped == croppedForEnhancement(g.source, At(g.history, g.historyIndex).originalRect,
                                         paddingRegenerate)
    IN  EnhanceOutcome(
            serviceEnhance(cropped, Prompts(g.descriptionHistory, g.description), response),
            cropped)

\* the chain from serviceEnhance's answer to its end (Home.tsx:1079-1100); a
\* result that does not load is caught and the chain returns to LOADED
RegenFinished(g, outcome) ==
    /\ g \in regens /\ g.pc = "enhance"
    /\ regens' = regens \ {g}
    /\ IF outcome = "reject"
       THEN /\ appState' = "LOADED"
            /\ UNCHANGED <<history, displaySelection, loads, lastOp>>
       ELSE /\ history' = RegenHistory(g, outcome)
            /\ displaySelection' = NULL
            /\ loads' = loads \cup
                 {[kind |-> "regenDone", src |-> RegenHistory(g, outcome)[g.historyIndex + 1].imageSrc]}
            /\ lastOp' = Op("regenerated",
                             g.history # history \/ g.historyIndex # historyIndex)
            /\ UNCHANGED appState
    /\ UNCHANGED <<image, pixelatedImageSrc, enhancedImageSrc, finalImageSrc,
                   historyIndex, newHistoryEntryData, enhancementJob,
                   finalEnhancementRect, isGeneratingGif, stagedSelection, isProcessing>>
    /\ UNCHANGED <<imageObjectURLRef, urls, revoked, runs, resets, budget>>
    /\ Rerender

\* newImage.onload of handleRegenerate (Home.tsx:1097-1099)
RegenLoaded(l) ==
    /\ l \in loads /\ l.kind = "regenDone"
    /\ loads' = loads \ {l}
    /\ image' = l.src
    /\ finalImageSrc' = l.src
    /\ appState' = "LOADED"
    /\ UNCHANGED <<pixelatedImageSrc, enhancedImageSrc, history, historyIndex,
                   newHistoryEntryData, enhancementJob, finalEnhancementRect,
                   displaySelection, isGeneratingGif, stagedSelection, isProcessing>>
    /\ UNCHANGED <<imageObjectURLRef, urls, revoked, runs, regens, resets, budget, lastOp>>
    /\ Rerender

\* ---------------------------------------------------------------- export
\* the frames of one zoom and of one hold (Home.tsx:289-293)
zoomFrames == 30
holdFrames == 15

\* the frames generateZoomGif hands to the encoder for the pair of images i
\* and i + 1, counted from 0 (Home.tsx:296-330): none when step i + 1 has no
\* rectangle, otherwise zoomFrames frames of image i and holdFrames of image i + 1
PairFrames(h, i) ==
    IF h[i + 2].originalRect = NULL THEN <<>>
    ELSE [f \in 1..zoomFrames |-> [kind |-> "zoom", image |-> i, f |-> f - 1]] \o
         [f \in 1..holdFrames |-> [kind |-> "hold", image |-> i + 1, f |-> f - 1]]

\* the frames of the pairs i, i + 1, ... in the order of the loop (Home.tsx:296)
RECURSIVE FramesFrom(_, _)
FramesFrom(h, i) ==
    IF i >= Len(h) - 1 THEN <<>> ELSE PairFrames(h, i) \o FramesFrom(h, i + 1)

\* generateZoomGif (Home.tsx:261-334) for the steps h, the canvas giving a 2d
\* context: it throws for fewer than two steps (262-264), when an image does
\* not load (265-273) and when the second step has no rectangle (274-277);
\* otherwise it writes the frames and calls gif.finish() once (332)
generateZoomGif(h, gone) ==
    IF \/ Len(h) < 2
       \/ \E k \in 1..Len(h) : ~Loads(h[k].imageSrc, gone) \/ h[k].imageSrc = EmptyDataUrl
       \/ h[2].originalRect = NULL
    THEN [threw |-> TRUE, frames |-> <<>>, finished |-> 0]
    ELSE [threw |-> FALSE, frames |-> FramesFrom(h, 0), finished |-> 1]

\* an export refused only below the first step
ExportRefusedBelowZero == historyIndex < 0

\* the guard of handleExportGif (Home.tsx:1106), also in the button's disabled
\* (1164): fewer than two active steps
ExportRefused == historyIndex < 1

\* handleExportGif up to its await (Home.tsx:1105-1109), a click on Export GIF
handleExportGif ==
    /\ ActionBarShown /\ stagedSelection = NULL
    /\ ~(ExportRefused \/ isGeneratingGif)
    /\ budget > 0 /\ budget' = budget - 1
    /\ isGeneratingGif' = TRUE
    /\ UNCHANGED <<appState, image, pixelatedImageSrc, enhancedImageSrc, finalImageSrc,
                   history, historyIndex, newHistoryEntryData, enhancementJob,
                   finalEnhancementRect, displaySelection, stagedSelection, isProcessing>>
    /\ UNCHANGED <<imageObjectURLRef, urls, revoked, loads, runs, regens, resets, lastOp>>
    /\ Rerender

\* handleExportGif's finally (Home.tsx:1113), the GIF made or not
ExportEnded ==
    /\ isGeneratingGif
    /\ isGeneratingGif' = FALSE
    /\ UNCHANGED <<appState, image, pixelatedImageSrc, enhancedImageSrc, finalImageSrc,
                   history, historyIndex, newHistoryEntryData, enhancementJob,
                   finalEnhancementRect, displaySelection, stagedSelection, isProcessing>>
    /\ UNCHANGED <<env, lastOp>>
    /\ Rerender

\* a click on Export GIF, the button enabled or not (Home.tsx:1164): with
\* fewer than two active steps, or an export under way, nothing is started; the
\* request is recorded as operation "export"
ExportRequest ==
    /\ ActionBarShown /\ stagedSelection = NULL
    /\ IF ExportRefused \/ isGeneratingGif
       THEN /\ lastOp' = Op("export", ExportRefused)
            /\ UNCHANGED <<home, env>>
            /\ Rerender
       ELSE handleExportGif

\* ---------------------------------------------------------------- Next
\* Every interleaving of the user's clicks and drops with the callbacks in
\* flight, the API answering serviceDescribeImage with a description or an
\* exception and serviceEnhance with an image that loads or does not; the
\* other answers of the API are followed in SpecRun.
Next ==
    \/ resetState
    \/ \E l \in loads : FetchDone(l)
    \/ \E l \in loads : FetchFailed(l)
    \/ \E l \in loads : InitialLoaded(l)
    \/ \E l \in loads : InitialError(l)
    \/ \E f \in Files, readable \in BOOLEAN : handleFileDrop(f, readable)
    \/ \E l \in loads : FileLoaded(l)
    \/ \E r \in RectIds : handleMouseDown(r)
    \/ CancelSelection
    \/ handleProcessClick
    \/ runEnhancementJob
    \/ \E run \in runs, response \in {"throws", "json"} :
          RunDescribed(run, RunDescription(run, response))
    \/ \E run \in runs, response \in {"image", "badImage"} :
          RunFinished(run, RunOutcome(run, response))
    \/ \E i \in 1..Len(dissolveLoading) : DissolveLoaded(i)
    \/ DissolveComplete
    \/ \E l \in loads : CommitLoaded(l)
    \/ handleUndo
    \/ handleRedo
    \/ \E l \in loads : NavLoaded(l)
    \/ handleRegenerate
    \/ \E l \in loads : RegenSourceLoaded(l)
    \/ \E g \in regens, response \in {"throws", "json"} :
          RegenDescribed(g, RegenDescription(g, response))
    \/ \E g \in regens, response \in {"image", "badImage"} :
          RegenFinished(g, RegenOutcome(g, response))
    \/ \E l \in loads : RegenLoaded(l)
    \/ handleExportGif
    \/ ExportEnded

Spec == Init /\ [][Next]_vars

\* The behaviours in which the user drops a file, confirms selections,
\* regenerates and resets, and never clicks Undo, Redo, Cancel or Export; the
\* default image is fetched and decoded without error.  They are behaviours of
\* the program like those of Spec, followed one click further.
InitReset == Start(MaxOpsReset)

NextReset ==
    \/ resetState
    \/ \E l \in loads : FetchDone(l)
    \/ \E l \in loads : InitialLoaded(l)
    \/ \E f \in Files : handleFileDrop(f, TRUE)
    \/ \E l \in loads : FileLoaded(l)
    \/ \E r \in RectIds : handleMouseDown(r)
    \/ handleProcessClick
    \/ runEnhancementJob
    \/ \E run \in runs : RunDescribed(run, FallbackDescription)
    \/ \E run \in runs : RunFinished(run, "ai")
    \/ \E i \in 1..Len(dissolveLoading) : DissolveLoaded(i)
    \/ DissolveComplete
    \/ \E l \in loads : CommitLoaded(l)
    \/ handleRegenerate
    \/ \E l \in loads : RegenSourceLoaded(l)
    \/ \E g \in regens : RegenDescribed(g, FallbackDescription)
    \/ \E g \in regens : RegenFinished(g, "ai")
    \/ \E l \in loads : RegenLoaded(l)

SpecReset == InitReset /\ [][NextReset]_vars

\* The behaviours in which the user drops a file, confirms selections and
\* regenerates, the API giving every answer it can give; the default image is
\* fetched and decoded without error.
InitRun == Start(MaxOpsRun)

NextRun ==
    \/ \E l \in loads : FetchDone(l)
    \/ \E l \in loads : InitialLoaded(l)
    \/ \E f \in Files : handleFileDrop(f, TRUE)
    \/ \E l \in loads : FileLoaded(l)
    \/ \E r \in RectIds : handleMouseDown(r)
    \/ handleProcessClick
    \/ runEnhancementJob
    \/ \E run \in runs, response \in DescribeResponses :
          RunDescribed(run, RunDescription(run, response))
    \/ \E run \in runs, response \in EnhanceResponses :
          RunFinished(run, RunOutcome(run, response))
    \/ \E i \in 1..Len(dissolveLoading) : DissolveLoaded(i)
    \/ DissolveComplete
    \/ \E l \in loads : CommitLoaded(l)
    \/ handleRegenerate
    \/ \E l \in loads : RegenSourceLoaded(l)
    \/ \E g \in regens, response \in DescribeResponses :
          RegenDescribed(g, RegenDescription(g, response))
    \/ \E g \in regens, response \in EnhanceResponses :
          RegenFinished(g, RegenOutcome(g, response))
    \/ \E l \in loads : RegenLoaded(l)

SpecRun == InitRun /\ [][NextRun]_vars

\* The behaviours in which the user drops a file and confirms selections, and
\* in which whatever is in flight ends: the fetch answers, every image element
\* given a source fires onload, SelectionAnimator's transition ends, the API
\* answers or fails, the reveal's images load and its animation reaches its
\* last frame.  The user is free to click or not.
InitLive == Start(MaxOpsLive)

NextLive ==
    \/ \E l \in loads : FetchDone(l)
    \/ \E l \in loads : InitialLoaded(l)
    \/ \E f \in Files : handleFileDrop(f, TRUE)
    \/ \E l \in loads : FileLoaded(l)
    \/ \E r \in RectIds : handleMouseDown(r)
    \/ handleProcessClick
    \/ runEnhancementJob
    \/ \E run \in runs, response \in DescribeResponses :
          RunDescribed(run, RunDescription(run, response))
    \/ \E run \in runs, response \in EnhanceResponses :
          RunFinished(run, RunOutcome(run, response))
    \/ \E i \in 1..Len(dissolveLoading) : DissolveLoaded(i)
    \/ DissolveComplete
    \/ \E l \in loads : CommitLoaded(l)

SpecLive ==
    /\ InitLive /\ [][NextLive]_vars
    /\ WF_vars(\E l \in loads : FetchDone(l))
    /\ WF_vars(\E l \in loads : InitialLoaded(l))
    /\ WF_vars(\E l \in loads : FileLoaded(l))
    /\ WF_vars(runEnhancementJob)
    /\ WF_vars(\E run \in runs, response \in DescribeResponses :
                  RunDescribed(run, RunDescription(run, response)))
    /\ WF_vars(\E run \in runs, response \in EnhanceResponses :
                  RunFinished(run, RunOutcome(run, response)))
    /\ WF_vars(\E i \in 1..Len(dissolveLoading) : DissolveLoaded(i))
    /\ WF_vars(DissolveComplete)
    /\ WF_vars(\E l \in loads : CommitLoaded(l))

\* A mouse-down where the image is shown, whatever the render has put there
\* (Home.tsx:1123-1127): the canvas of ImageDisplay, whose handleMouseDown then
\* runs, or the selection animation or the reveal, which have no handler.  The
\* request that found no ImageDisplay is recorded as operation "stage", its
\* flag telling that it came during the reveal.
StageRequest(r) ==
    IF ImageDisplayMounted(finalImageSrc, appState)
    THEN handleMouseDown(r)
    ELSE /\ lastOp' = Op("stage", appState = "ENHANCED")
         /\ UNCHANGED <<home, env>>
         /\ Rerender

\* The behaviours in which the user clicks on the image at any moment, confirms
\* selections and regenerates; the default image is fetched and decoded
\* without error and the API answers.
InitStage == Start(MaxOpsStage)

NextStage ==
    \/ \E l \in loads : FetchDone(l)
    \/ \E l \in loads : InitialLoaded(l)
    \/ \E r \in RectIds : StageRequest(r)
    \/ handleProcessClick
    \/ runEnhancementJob
    \/ \E run \in runs, response \in {"throws", "json"} :
          RunDescribed(run, RunDescription(run, response))
    \/ \E run \in runs, response \in {"image", "badImage"} :
          RunFinished(run, RunOutcome(run, response))
    \/ \E i \in 1..Len(dissolveLoading) : DissolveLoaded(i)
    \/ DissolveComplete
    \/ \E l \in loads : CommitLoaded(l)
    \/ handleRegenerate
    \/ \E l \in loads : RegenSourceLoaded(l)
    \/ \E g \in regens, response \in {"throws", "json"} :
          RegenDescribed(g, RegenDescription(g, response))
    \/ \E g \in regens, response \in {"image", "badImage"} :
          RegenFinished(g, RegenOutcome(g, response))
    \/ \E l \in loads : RegenLoaded(l)

SpecStage == InitStage /\ [][NextStage]_vars

\* runEnhancementJob from serviceEnhance's answer to its end when
\* canvas.getContext('2d') gives null there (Home.tsx:72-77): a cropImage that
\* resolves to '' for the final crop makes enhancedSrc '' (975-977); one that
\* resolves to '' for the crop sent to serviceEnhance comes back as '' (182,
\* 241-244), the image element given '' fires onerror and the catch block
\* crops again (962-968, 979-983), with a context (fallbackCropped) or without.
RunFinishedNoContext(run, fallbackCropped) ==
    /\ run \in runs /\ run.pc = "enhance"
    /\ runs' = runs \ {run}
    /\ pixelatedImageSrc' = run.job.pixelatedSrc
    /\ enhancedImageSrc' = IF fallbackCropped
                           THEN cropImage(run.image, run.job.originalRect, <<"twice", 0>>)
                           ELSE EmptyDataUrl
    /\ appState' = "ENHANCED"
    /\ enhancementJob' = NULL
    /\ isProcessing' = FALSE
    /\ lastOp' = Op("nocontext", FALSE)
    /\ UNCHANGED <<image, finalImageSrc, history, historyIndex, newHistoryEntryData,
                   finalEnhancementRect, displaySelection, isGeneratingGif,
                   stagedSelection>>
    /\ UNCHANGED <<imageObjectURLRef, urls, revoked, loads, regens, resets, budget>>
    /\ Rerender

\* the regenerate chain from serviceEnhance's answer to its end when
\* canvas.getContext('2d') gives null: for the crop sent to serviceEnhance
\* ("enhance") the '' that comes back fires onerror and the catch returns to
\* LOADED (1079-1083, 1100); for the final crop ("final") the step is written
\* with image '' and the image element given '' never fires onload (1092-1099).
RegenFinishedNoContext(g, crop) ==
    /\ g \in regens /\ g.pc = "enhance"
    /\ regens' = regens \ {g}
    /\ IF crop = "enhance"
       THEN /\ appState' = "LOADED"
            /\ UNCHANGED <<history, displaySelection>>
       ELSE /\ history' = Slice(g.history, g.historyIndex) \o
                    <<HistoryStep(EmptyDataUrl, g.description,
                                  At(g.history, g.historyIndex).originalRect)>>
            /\ displaySelection' = NULL
            /\ UNCHANGED appState
    /\ lastOp' = Op("nocontext", FALSE)
    /\ UNCHANGED <<image, pixelatedImageSrc, enhancedImageSrc, finalImageSrc,
                   historyIndex, newHistoryEntryData, enhancementJob,
                   finalEnhancementRect, isGeneratingGif, stagedSelection, isProcessing>>
    /\ UNCHANGED <<imageObjectURLRef, urls, revoked, loads, runs, resets, budget>>
    /\ Rerender

\* The behaviours in which the user confirms selections and regenerates and
\* the canvas may give no 2d context to the crops of a run or of a regenerate
\* chain; the default image is fetched and decoded without error.
InitCrop == Start(MaxOpsCrop)

NextCrop ==
    \/ \E l \in loads : FetchDone(l)
    \/ \E l \in loads : InitialLoaded(l)
    \/ \E r \in RectIds : handleMouseDown(r)
    \/ handleProcessClick
    \/ runEnhancementJob
    \/ \E run \in runs, response \in {"throws", "json"} :
          RunDescribed(run, RunDescription(run, response))
    \/ \E run \in runs, response \in {"image", "badImage"} :
          RunFinished(run, RunOutcome(run, response))
    \/ \E run \in runs, fallbackCropped \in BOOLEAN : RunFinishedNoContext(run, fallbackCropped)
    \/ \E i \in 1..Len(dissolveLoading) : DissolveLoaded(i)
    \/ DissolveComplete
    \/ \E l \in loads : CommitLoaded(l)
    \/ handleRegenerate
    \/ \E l \in loads : RegenSourceLoaded(l)
    \/ \E g \in regens, response \in {"throws", "json"} :
          RegenDescribed(g, RegenDescription(g, response))
    \/ \E g \in regens, response \in {"image", "badImage"} :
          RegenFinished(g, RegenOutcome(g, response))
    \/ \E g \in regens, crop \in {"enhance", "final"} : RegenFinishedNoContext(g, crop)
    \/ \E l \in loads : RegenLoaded(l)

SpecCrop == InitCrop /\ [][NextCrop]_vars

\* The behaviours in which the user confirms selections, clicks Undo and Redo
\* and clicks Export GIF at any cursor; the default image is fetched and
\* decoded without error and the API answers.
InitExport == Start(MaxOpsExport)

NextExport ==
    \/ \E l \in loads : FetchDone(l)
    \/ \E l \in loads : InitialLoaded(l)
    \/ \E r \in RectIds : handleMouseDown(r)
    \/ handleProcessClick
    \/ runEnhancementJob
    \/ \E run \in runs, response \in {"throws", "json"} :
          RunDescribed(run, RunDescription(run, response))
    \/ \E run \in runs, response \in {"image", "badImage"} :
          RunFinished(run, RunOutcome(run, response))
    \/ \E i \in 1..Len(dissolveLoading) : DissolveLoaded(i)
    \/ DissolveComplete
    \/ \E l \in loads : CommitLoaded(l)
    \/ handleUndo
    \/ handleRedo
    \/ \E l \in loads : NavLoaded(l)
    \/ ExportRequest
    \/ ExportEnded

SpecExport == InitExport /\ [][NextExport]_vars

\* serviceEnhance on its own: a call with a padded crop and a list of prompts,
\* and the API's answer to it.  The call and what it resolved to are kept in
\* `runs`; the component is as it was mounted and takes no step.
ServiceCalls ==
    {[pc |-> "serviceEnhance", croppedImageDataUrl |-> croppedForEnhancement(img, [id |-> r, space |-> img], padding),
      prompts |-> prompts, response |-> NULL, result |-> NULL] :
        img \in {ObjectUrl(1)} \cup {FileUrl(f) : f \in Files}, r \in RectIds,
        padding \in {paddingEnhance, paddingRegenerate},
        prompts \in {<<>>, <<"">>, <<"p1">>, <<"", "">>, <<"", "p1">>, <<"p1", "">>, <<"p1", "p1">>}}

InitService ==
    /\ appState = "LOADING"
    /\ image = NULL /\ pixelatedImageSrc = NULL /\ enhancedImageSrc = NULL
    /\ finalImageSrc = NULL
    /\ history = <<>> /\ historyIndex = -1
    /\ newHistoryEntryData = NULL /\ enhancementJob = NULL
    /\ finalEnhancementRect = NULL /\ displaySelection = NULL
    /\ isGeneratingGif = FALSE /\ stagedSelection = NULL /\ isProcessing = FALSE
    /\ imageObjectURLRef = NULL /\ urls = {} /\ revoked = {}
    /\ loads = {[kind |-> "fetch", n |-> 0]}
    /\ runs \in {{call} : call \in ServiceCalls}
    /\ regens = {}
    /\ onCompleteCalled = FALSE
    /\ dissolveLoading = <<>> /\ dissolveTicking = <<>>
    /\ resets = 0 /\ budget = 0
    /\ lastOp = [op |-> "init", history |-> <<>>, historyIndex |-> -1, flag |-> FALSE,
                 prevOp |-> "init", prevHistory |-> <<>>, prevIndex |-> -1]

\* the promise of serviceEnhance settles (Home.tsx:178-245)
serviceEnhanceSettled(call, response) ==
    /\ call \in runs /\ call.pc = "serviceEnhance"
    /\ runs' = (runs \ {call}) \cup
         {[call EXCEPT !.pc = "settled", !.response = response,
                       !.result = serviceEnhance(call.croppedImageDataUrl, call.prompts, response)]}
    /\ UNCHANGED <<home, imageObjectURLRef, urls, revoked, loads, regens, resets, budget,
                   view, lastOp>>

NextService == \E call \in runs, response \in EnhanceResponses : serviceEnhanceSettled(call, response)

SpecService == InitService /\ [][NextService]_vars

\* PixelDissolve.startAnimation on its own (Home.tsx:580-634): a canvas of
\* totalPixels pixels, lowData and highData read from the two images, the
\* index array before the shuffle.  The call is kept in `runs`; the component
\* is as it was mounted and takes no step.  Pixel p of the low image is
\* <<"low", p>>, of the high image <<"high", p>>.
RevealCalls ==
    {[pc |-> "shuffle", totalPixels |-> n,
      pixelIndices |-> [k \in 1..n |-> k - 1], i |-> n - 1,
      lowData |-> [k \in 1..n |-> <<"low", k - 1>>],
      highData |-> [k \in 1..n |-> <<"high", k - 1>>],
      canvas |-> [k \in 1..n |-> <<"low", k - 1>>],
      currentPixel |-> 0, completions |-> 0] : n \in 0..MaxPixels}

InitReveal ==
    /\ appState = "ENHANCED"
    /\ image = NULL /\ pixelatedImageSrc = NULL /\ enhancedImageSrc = NULL
    /\ finalImageSrc = NULL
    /\ history = <<>> /\ historyIndex = -1
    /\ newHistoryEntryData = NULL /\ enhancementJob = NULL
    /\ finalEnhancementRect = NULL /\ displaySelection = NULL
    /\ isGeneratingGif = FALSE /\ stagedSelection = NULL /\ isProcessing = FALSE
    /\ imageObjectURLRef = NULL /\ urls = {} /\ revoked = {}
    /\ loads = {}
    /\ runs \in {{call} : call \in RevealCalls}
    /\ regens = {}
    /\ onCompleteCalled = FALSE
    /\ dissolveLoading = <<>> /\ dissolveTicking = <<>>
    /\ resets = 0 /\ budget = 0
    /\ lastOp = [op |-> "init", history |-> <<>>, historyIndex |-> -1, flag |-> FALSE,
                 prevOp |-> "init", prevHistory |-> <<>>, prevIndex |-> -1]

\* an exchange that copies element j over element i and leaves j as it was
SwapOverwrite(s, i, j) == [s EXCEPT ![i + 1] = s[j + 1]]

\* [pixelIndices[i], pixelIndices[j]] = [pixelIndices[j], pixelIndices[i]]
\* (Home.tsx:609), the indices counted from 0
Swap(s, i, j) == [s EXCEPT ![i + 1] = s[j + 1], ![j + 1] = s[i + 1]]

\* one pass of the shuffle loop (Home.tsx:607-610): j is
\* Math.floor(Math.random() * (i + 1)), any of 0..i
ShuffleStep(call, j) ==
    /\ call \in runs /\ call.pc = "shuffle" /\ call.i > 0
    /\ j \in 0..call.i
    /\ runs' = (runs \ {call}) \cup
         {[call EXCEPT !.pixelIndices = Swap(call.pixelIndices, call.i, j), !.i = call.i - 1]}
    /\ UNCHANGED <<home, imageObjectURLRef, urls, revoked, loads, regens, resets, budget,
                   view, lastOp>>

\* the loop has ended (Home.tsx:607); animate is called next (633)
ShuffleDone(call) ==
    /\ call \in runs /\ call.pc = "shuffle" /\ call.i <= 0
    /\ runs' = (runs \ {call}) \cup {[call EXCEPT !.pc = "animate"]}
    /\ UNCHANGED <<home, imageObjectURLRef, urls, revoked, loads, regens, resets, budget,
                   view, lastOp>>

\* the frames a reveal is spread over (Home.tsx:612)
RevealFrames == 60

\* Math.max(1, Math.floor(totalPixels / 60))
pixelsPerFrameFloor(totalPixels) ==
    LET c == totalPixels \div RevealFrames
    IN  IF c > 1 THEN c ELSE 1

\* Math.max(1, Math.ceil(totalPixels / 60)) (Home.tsx:612)
pixelsPerFrame(totalPixels) ==
    LET c == (totalPixels + RevealFrames - 1) \div RevealFrames
    IN  IF c > 1 THEN c ELSE 1

\* one call of animate with the canvas mounted (Home.tsx:613-632): the last
\* call puts highData and calls onComplete, every other copies the next
\* pixelsPerFrame pixels of the shuffled order into lowData and puts lowData
animate(call) ==
    /\ call \in runs /\ call.pc = "animate"
    /\ LET endPixel == IF call.currentPixel + pixelsPerFrame(call.totalPixels) < call.totalPixels
                       THEN call.currentPixel + pixelsPerFrame(call.totalPixels)
                       ELSE call.totalPixels
           copied == {call.pixelIndices[i + 1] : i \in call.currentPixel..(endPixel - 1)}
           lowData == [k \in 1..call.totalPixels |->
                          IF k - 1 \in copied THEN call.highData[k] ELSE call.lowData[k]]
       IN  runs' = (runs \ {call}) \cup
             {IF call.currentPixel >= call.totalPixels
              THEN [call EXCEPT !.canvas = call.highData, !.pc = "done",
                                !.completions = call.completions + 1]
              ELSE [call EXCEPT !.lowData = lowData, !.canvas = lowData,
                                !.currentPixel = endPixel]}
    /\ UNCHANGED <<home, imageObjectURLRef, urls, revoked, loads, regens, resets, budget,
                   view, lastOp>>

NextReveal ==
    \/ \E call \in runs, j \in 0..MaxPixels : ShuffleStep(call, j)
    \/ \E call \in runs : ShuffleDone(call)
    \/ \E call \in runs : animate(call)

SpecReveal == InitReveal /\ [][NextReveal]_vars

\* ImageDisplay.handleMouseDown with the fixed selection box on its own
\* (Home.tsx:483-521).  Lengths are whole numbers of 1/Unit of a pixel, so that
\* naturalWidth * 0.125 and half of it are exact; the canvas shows the image at
\* scale num/den with the letterbox offsets of getCanvasScale (383-401).
Unit == 32

\* fixedSelectionSizePercentage = 0.125 (Home.tsx:788) = 1 / 8
fixedSelectionSizeDivisor == 8

\* the sizes of the image ImageDisplay holds, with the 800 x 600 example
ImageSizes ==
    {[naturalWidth |-> w, naturalHeight |-> h] : w \in 1..MaxSide, h \in 1..MaxSide}

CanvasScales ==
    {[num |-> 1, den |-> 2, offsetX |-> 0, offsetY |-> 0],
     [num |-> 1, den |-> 1, offsetX |-> Unit, offsetY |-> 0],
     [num |-> 2, den |-> 1, offsetX |-> 0, offsetY |-> Unit]}

\* a click from 1/16 pixel outside the image to 1/16 pixel outside on the
\* other side, in steps of 1/16 pixel of the image
ClickCoords(side) == {2 * k : k \in -1..(16 * side + 1)}

\* the mouse position on the canvas (getMousePos, Home.tsx:477-481) of a
\* click that lies over the point (cx, cy) of the image
MousePos(cx, cy, cs) ==
    [x |-> cs.offsetX + (cx * cs.num) \div cs.den,
     y |-> cs.offsetY + (cy * cs.num) \div cs.den]

BoxCall(size, cs, cx, cy) ==
    [pc |-> "click", naturalWidth |-> size.naturalWidth,
     naturalHeight |-> size.naturalHeight, canvas |-> cs,
     clickX |-> cx, clickY |-> cy, pos |-> MousePos(cx, cy, cs), staged |-> NULL]

BoxCalls ==
    {BoxCall(size, cs, cx, cy) :
        size \in ImageSizes, cs \in CanvasScales,
        cx \in ClickCoords(MaxSide), cy \in ClickCoords(MaxSide)}
    \cup {BoxCall([naturalWidth |-> 800, naturalHeight |-> 600],
                  [num |-> 1, den |-> 1, offsetX |-> 0, offsetY |-> 0],
                  400 * Unit, 300 * Unit)}

InitBox ==
    /\ appState = "LOADED"
    /\ image = NULL /\ pixelatedImageSrc = NULL /\ enhancedImageSrc = NULL
    /\ finalImageSrc = NULL
    /\ history = <<>> /\ historyIndex = -1
    /\ newHistoryEntryData = NULL /\ enhancementJob = NULL
    /\ finalEnhancementRect = NULL /\ displaySelection = NULL
    /\ isGeneratingGif = FALSE /\ stagedSelection = NULL /\ isProcessing = FALSE
    /\ imageObjectURLRef = NULL /\ urls = {} /\ revoked = {}
    /\ loads = {}
    /\ runs \in {{call} : call \in BoxCalls}
    /\ regens = {}
    /\ onCompleteCalled = FALSE
    /\ dissolveLoading = <<>> /\ dissolveTicking = <<>>
    /\ resets = 0 /\ budget = 0
    /\ lastOp = [op |-> "init", history |-> <<>>, historyIndex |-> -1, flag |-> FALSE,
                 prevOp |-> "init", prevHistory |-> <<>>, prevIndex |-> -1]

\* a box left where the click put it, across the far edge or not
ClampHighMissing(v, size, limit) == v

\* if (originalX < 0) originalX = 0 (Home.tsx:502-503)
ClampLow(v) == IF v < 0 THEN 0 ELSE v

\* if (originalX + boxWidth > image.naturalWidth)
\*     originalX = image.naturalWidth - boxWidth (Home.tsx:504-505)
ClampHigh(v, size, limit) == IF v + size > limit THEN limit - size ELSE v

\* originalRect of handleMouseDown (Home.tsx:496-506) for the mouse position
\* pos on a canvas showing a naturalWidth x naturalHeight image
FixedBoxRect(call) ==
    LET cs == call.canvas
        originalClickX == ((call.pos.x - cs.offsetX) * cs.den) \div cs.num
        originalClickY == ((call.pos.y - cs.offsetY) * cs.den) \div cs.num
        boxWidth == (call.naturalWidth * Unit) \div fixedSelectionSizeDivisor
        boxHeight == (call.naturalHeight * Unit) \div fixedSelectionSizeDivisor
    IN  [x |-> ClampHigh(ClampLow(originalClickX - boxWidth \div 2), boxWidth,
                         call.naturalWidth * Unit),
         y |-> ClampHigh(ClampLow(originalClickY - boxHeight \div 2), boxHeight,
                         call.naturalHeight * Unit),
         w |-> boxWidth, h |-> boxHeight]

\* screenRect of handleMouseDown (Home.tsx:507-512)
ScreenRect(r, cs) ==
    [x |-> (r.x * cs.num) \div cs.den + cs.offsetX,
     y |-> (r.y * cs.num) \div cs.den + cs.offsetY,
     w |-> (r.w * cs.num) \div cs.den, h |-> (r.h * cs.num) \div cs.den]

\* the click is outside the displayed image (Home.tsx:493-495)
OutsideImage(call) ==
    LET cs == call.canvas
        dWidth == (call.naturalWidth * Unit * cs.num) \div cs.den
        dHeight == (call.naturalHeight * Unit * cs.num) \div cs.den
    IN  \/ call.pos.x < cs.offsetX \/ call.pos.x > cs.offsetX + dWidth
        \/ call.pos.y < cs.offsetY \/ call.pos.y > cs.offsetY + dHeight

\* handleMouseDown with useFixedSelectionBox (Home.tsx:483-517): outside the
\* image nothing is staged, inside onStageSelection gets the two rectangles
FixedBoxClick(call) ==
    /\ call \in runs /\ call.pc = "click"
    /\ runs' = (runs \ {call}) \cup
         {IF OutsideImage(call)
          THEN [call EXCEPT !.pc = "ignored"]
          ELSE [call EXCEPT !.pc = "staged",
                            !.staged = [originalRect |-> FixedBoxRect(call),
                                        screenRect |-> ScreenRect(FixedBoxRect(call),
                                                                  call.canvas)]]}
    /\ UNCHANGED <<home, imageObjectURLRef, urls, revoked, loads, regens, resets, budget,
                   view, lastOp>>

NextBox == \E call \in runs : FixedBoxClick(call)

SpecBox == InitBox /\ [][NextBox]_vars

\* the component as mounted and never touched, with one call of a function
\* under study kept in `runs` (Home.tsx:789-802)
HarnessInit(calls) ==
    /\ appState = "LOADED"
    /\ image = NULL /\ pixelatedImageSrc = NULL /\ enhancedImageSrc = NULL
    /\ finalImageSrc = NULL
    /\ history = <<>> /\ historyIndex = -1
    /\ newHistoryEntryData = NULL /\ enhancementJob = NULL
    /\ finalEnhancementRect = NULL /\ displaySelection = NULL
    /\ isGeneratingGif = FALSE /\ stagedSelection = NULL /\ isProcessing = FALSE
    /\ imageObjectURLRef = NULL /\ urls = {} /\ revoked = {}
    /\ loads = {}
    /\ runs \in {{call} : call \in calls}
    /\ regens = {}
    /\ onCompleteCalled = FALSE
    /\ dissolveLoading = <<>> /\ dissolveTicking = <<>>
    /\ resets = 0 /\ budget = 0
    /\ lastOp = [op |-> "init", history |-> <<>>, historyIndex |-> -1, flag |-> FALSE,
                 prevOp |-> "init", prevHistory |-> <<>>, prevIndex |-> -1]

\* the padded rectangle of runEnhancementJob (Home.tsx:943-954) and of
\* handleRegenerate (Home.tsx:1062-1073) on its own.  Lengths are whole numbers
\* of 1/Unit of a pixel and the padding is in hundredths, so that
\* originalRect.w * padding and originalRect.w * (1 + 2 * padding) are exact.
MathMinSecond(a, b) == b

\* Math.min (Home.tsx:952-953)
MathMin(a, b) == IF a < b THEN a ELSE b

\* Math.max (Home.tsx:950-951)
MathMax(a, b) == IF a > b THEN a ELSE b

\* paddedRect of a selection in an image of sourceImageWidth x sourceImageHeight
paddedRect(originalRect, padding, sourceImageWidth, sourceImageHeight) ==
    LET paddedX == originalRect.x - (originalRect.w * padding) \div 100
        paddedY == originalRect.y - (originalRect.h * padding) \div 100
        paddedW == (originalRect.w * (100 + 2 * padding)) \div 100
        paddedH == (originalRect.h * (100 + 2 * padding)) \div 100
        finalPaddedX == MathMax(0, paddedX)
        finalPaddedY == MathMax(0, paddedY)
        finalPaddedX2 == MathMin(sourceImageWidth, paddedX + paddedW)
        finalPaddedY2 == MathMin(sourceImageHeight, paddedY + paddedH)
    IN  [x |-> finalPaddedX, y |-> finalPaddedY,
         w |-> finalPaddedX2 - finalPaddedX, h |-> finalPaddedY2 - finalPaddedY]

\* the selections lying within an image of w x h pixels, their corners and
\* extents on the half pixel
RectsWithin(w, h) ==
    {[x |-> (Unit \div 2) * x, y |-> (Unit \div 2) * y,
      w |-> (Unit \div 2) * rw, h |-> (Unit \div 2) * rh] :
        x \in 0..(2 * w), y \in 0..(2 * h), rw \in 0..(2 * w), rh \in 0..(2 * h)}
    \cap {r \in [x : 0..(Unit * w), y : 0..(Unit * h), w : 0..(Unit * w), h : 0..(Unit * h)] :
             r.x + r.w <= Unit * w /\ r.y + r.h <= Unit * h}

PadCalls ==
    UNION {{[pc |-> "pad", originalRect |-> r, padding |-> padding,
             sourceImageWidth |-> Unit * size.naturalWidth,
             sourceImageHeight |-> Unit * size.naturalHeight, paddedRect |-> NULL] :
               r \in RectsWithin(size.naturalWidth, size.naturalHeight),
               padding \in {paddingEnhance, paddingRegenerate}} : size \in ImageSizes}

InitPad == HarnessInit(PadCalls)

\* const paddedRect = { ... } (Home.tsx:954, 1073)
PadComputed(call) ==
    /\ call \in runs /\ call.pc = "pad"
    /\ runs' = (runs \ {call}) \cup
         {[call EXCEPT !.pc = "padded",
                       !.paddedRect = paddedRect(call.originalRect, call.padding,
                                                 call.sourceImageWidth,
                                                 call.sourceImageHeight)]}
    /\ UNCHANGED <<home, imageObjectURLRef, urls, revoked, loads, regens, resets, budget,
                   view, lastOp>>

NextPad == \E call \in runs : PadComputed(call)

SpecPad == InitPad /\ [][NextPad]_vars

\* interpolateRect on its own (Home.tsx:248-253).  A number is a binary
\* floating-point value: a whole multiple of the smallest quantum with a
\* significand of SignificandBits bits, and every operation gives the exact
\* result rounded to the nearest such value, ties to the even significand,
\* as IEEE 754 does for a double.
RECURSIVE Pow2(_)
Pow2(n) == IF n = 0 THEN 1 ELSE 2 * Pow2(n - 1)

\* x >= 0 rounded to a multiple of the quantum s, ties to even
RoundAt(x, s) ==
    LET q == x \div s
        r == x % s
    IN  IF 2 * r < s THEN q * s
        ELSE IF 2 * r > s THEN (q + 1) * s
        ELSE IF q % 2 = 0 THEN q * s ELSE (q + 1) * s

\* x >= 0 rounded at the quantum its magnitude calls for, s or coarser
RECURSIVE RoundFrom(_, _)
RoundFrom(x, s) ==
    IF x < Pow2(SignificandBits) * s THEN RoundAt(x, s) ELSE RoundFrom(x, 2 * s)

\* the number nearest to the exact value x
fl(x) == IF x < 0 THEN 0 - RoundFrom(0 - x, 1) ELSE RoundFrom(x, 1)

\* the numbers from 0 to MaxCoord
Numbers == {x \in 0..MaxCoord : fl(x) = x}

\* start.x + (end.x - start.x) * t (Home.tsx:249), operation by operation
Interpolate(a, b, t) == fl(a + fl(fl(b - a) * t))

interpolateRect(start, end, t) ==
    [x |-> Interpolate(start.x, end.x, t), y |-> Interpolate(start.y, end.y, t),
     w |-> Interpolate(start.w, end.w, t), h |-> Interpolate(start.h, end.h, t)]

\* rectangles of numbers: square ones of two sizes, in the top two rows
NumberRects == {[x |-> x, y |-> y, w |-> w, h |-> w] : x \in Numbers, y \in {0, 1}, w \in {1, 10}}

InterpolateCalls ==
    {[pc |-> "interpolateRect", start |-> a, end |-> b, t |-> t, rect |-> NULL] :
        a \in NumberRects, b \in NumberRects, t \in {0, 1}}

InitInterpolate == HarnessInit(InterpolateCalls)

\* interpolateRect returns (Home.tsx:248-253)
Interpolated(call) ==
    /\ call \in runs /\ call.pc = "interpolateRect"
    /\ runs' = (runs \ {call}) \cup
         {[call EXCEPT !.pc = "returned",
                       !.rect = interpolateRect(call.start, call.end, call.t)]}
    /\ UNCHANGED <<home, imageObjectURLRef, urls, revoked, loads, regens, resets, budget,
                   view, lastOp>>

NextInterpolate == \E call \in runs : Interpolated(call)

SpecInterpolate == InitInterpolate /\ [][NextInterpolate]_vars

\* easeInOutCubic on its own (Home.tsx:247).  The argument is k / n and the
\* value is returned as its numerator over n * n * n, both exact.
easeInOutCubicNoHalf(k, n) ==
    IF 2 * k < n THEN 4 * k * k * k
    ELSE n * n * n - (2 * n - 2 * k) * (2 * n - 2 * k) * (2 * n - 2 * k)

\* t < 0.5 ? 4 * t * t * t : 1 - Math.pow(-2 * t + 2, 3) / 2
easeInOutCubic(k, n) ==
    IF 2 * k < n THEN 4 * k * k * k
    ELSE n * n * n - ((2 * n - 2 * k) * (2 * n - 2 * k) * (2 * n - 2 * k)) \div 2

\* the arguments tried are k / EaseGrid: the frame fractions f / zoomFrames
\* (Home.tsx:304) and EaseFine - 1 points between each two of them
EaseGrid == zoomFrames * EaseFine

EaseCalls ==
    {[pc |-> "easeInOutCubic", k1 |-> k1, k2 |-> k2, v1 |-> NULL, v2 |-> NULL] :
        k1 \in 0..EaseGrid, k2 \in 0..EaseGrid}

InitEase == HarnessInit(EaseCalls)

\* easeInOutCubic returns for each of the two arguments
Eased(call) ==
    /\ call \in runs /\ call.pc = "easeInOutCubic"
    /\ runs' = (runs \ {call}) \cup
         {[call EXCEPT !.pc = "returned",
                       !.v1 = easeInOutCubic(call.k1, EaseGrid),
                       !.v2 = easeInOutCubic(call.k2, EaseGrid)]}
    /\ UNCHANGED <<home, imageObjectURLRef, urls, revoked, loads, regens, resets, budget,
                   view, lastOp>>

NextEase == \E call \in runs : Eased(call)

SpecEase == InitEase /\ [][NextEase]_vars

\* animate on its own for canvases of up to MaxTickPixels pixels
\* (Home.tsx:611-633): startAnimation has shuffled pixelIndices, here into the
\* reverse order, one of those the shuffle can give, and calls animate.
TickCalls ==
    {[pc |-> "animate", totalPixels |-> n,
      pixelIndices |-> [k \in 1..n |-> n - k], i |-> 0,
      lowData |-> [k \in 1..n |-> <<"low", k - 1>>],
      highData |-> [k \in 1..n |-> <<"high", k - 1>>],
      canvas |-> [k \in 1..n |-> <<"low", k - 1>>],
      currentPixel |-> 0, completions |-> 0] : n \in 1..MaxTickPixels}

InitTick == HarnessInit(TickCalls)

NextTick == \E call \in runs : animate(call)

SpecTick == InitTick /\ [][NextTick]_vars

\* ================================================================ claims
\* C1: a commit that follows the confirmation of a staged selection, nothing
\* else having touched History in between, leaves steps = the steps the
\* confirmation found up to its cursor c, followed by the new step, and the
\* cursor at c + 1: the undone suffix is gone, and with c = len - 1 the step is
\* appended.
CommitDiscardsUndoneSuffix ==
    (lastOp.op = "commit" /\ lastOp.prevOp = "confirm") =>
        LET c == lastOp.prevIndex
            old == lastOp.prevHistory
        IN  /\ Len(history) = c + 2
            /\ Slice(history, c + 1) = Slice(old, c + 1)
            /\ history[c + 2].originalRect # NULL
            /\ historyIndex = c + 1

\* C1 happens: a selection confirmed with the cursor behind the tip was committed
CommitAfterUndoSeen ==
    /\ lastOp.op = "commit" /\ lastOp.prevOp = "confirm"
    /\ lastOp.prevIndex >= 0
    /\ lastOp.prevIndex < Len(lastOp.prevHistory) - 1

\* C2: a regenerate chain that ends with History as its click found it, cursor
\* i, leaves steps[0..i-1] as they were, puts at i a new step (the enhancement
\* of steps[i-1]'s image) with the rectangle of the step it replaces, and leaves
\* the cursor at i; a click on Re-gen at cursor 0 changes nothing.
RegenerateReplacesCursorStep ==
    /\ [](lastOp.op = "regenerated" /\ ~lastOp.flag =>
            LET i == lastOp.historyIndex
                old == lastOp.history
            IN  /\ i > 0
                /\ Slice(history, i) = Slice(old, i)
                /\ At(history, i) # NULL
                /\ At(history, i).originalRect = At(old, i).originalRect
                /\ \E o \in EnhanceOutcomes \ {"reject"} :
                      At(history, i).imageSrc =
                          EnhancedSrc(At(old, i - 1).imageSrc, At(old, i).originalRect, o,
                                      paddingRegenerate)
                /\ historyIndex = i)
    /\ [][handleRegenerate /\ historyIndex = 0 => UNCHANGED <<home, env, view>>]_vars

\* C2 happens: a regenerate chain has replaced the step at its cursor
RegenerateSeen ==
    /\ lastOp.op = "regenerated" /\ ~lastOp.flag
    /\ lastOp.historyIndex = Len(lastOp.history) - 1

\* C3 as stated: after a regenerate with the cursor behind the tip the steps
\* beyond the cursor are still there, unchanged, and len(steps) is unchanged.
RegenerateKeepsLaterSteps ==
    (lastOp.op = "regenerated" /\ ~lastOp.flag) =>
        /\ Len(history) = Len(lastOp.history)
        /\ \A j \in lastOp.historyIndex + 2 .. Len(lastOp.history) :
              history[j] = lastOp.history[j]

\* C3 as the code has it: a regenerate at cursor i leaves exactly i + 1 steps;
\* the steps beyond the cursor are discarded and the cursor does not move.
RegenerateDiscardsLaterSteps ==
    (lastOp.op = "regenerated" /\ ~lastOp.flag) =>
        /\ Len(history) = lastOp.historyIndex + 1
        /\ historyIndex = lastOp.historyIndex

\* C3 happens: a regenerate chain ended that was started behind the tip
RegenerateBehindTipSeen ==
    /\ lastOp.op = "regenerated" /\ ~lastOp.flag
    /\ lastOp.historyIndex < Len(lastOp.history) - 1

\* C4 as stated: undo changes nothing at cursor 0 and otherwise moves the
\* cursor down by one, redo changes nothing at cursor len - 1 and otherwise
\* moves it up by one, and neither changes steps.
UndoRedoMoveUnlessAtEnd ==
    /\ lastOp.op = "undo" =>
          /\ history = lastOp.history
          /\ historyIndex = IF lastOp.historyIndex = 0 THEN lastOp.historyIndex
                             ELSE lastOp.historyIndex - 1
    /\ lastOp.op = "redo" =>
          /\ history = lastOp.history
          /\ historyIndex = IF lastOp.historyIndex = Len(lastOp.history) - 1
                             THEN lastOp.historyIndex
                             ELSE lastOp.historyIndex + 1

\* C4 as the code has it: undo changes nothing at cursor <= 0 or while a GIF
\* export (or an enhancement) is running and otherwise moves the cursor down by
\* one; redo changes nothing at cursor >= len - 1 or while busy and otherwise
\* moves it up by one; neither changes steps.
UndoRedoMoveUnlessAtEndOrBusy ==
    /\ lastOp.op = "undo" =>
          /\ history = lastOp.history
          /\ historyIndex = IF lastOp.historyIndex <= 0 \/ lastOp.flag
                             THEN lastOp.historyIndex
                             ELSE lastOp.historyIndex - 1
    /\ lastOp.op = "redo" =>
          /\ history = lastOp.history
          /\ historyIndex = IF lastOp.historyIndex >= Len(lastOp.history) - 1 \/ lastOp.flag
                             THEN lastOp.historyIndex
                             ELSE lastOp.historyIndex + 1

\* C4 happens: Undo was clicked above cursor 0 while a GIF export was running
UndoWhileExportingSeen ==
    lastOp.op = "undo" /\ lastOp.flag /\ lastOp.historyIndex > 0

\* C5: a redo that moves the cursor, right after an undo that moved it, puts
\* the cursor and steps back where they were before the undo; and after every
\* move of Undo or Redo the overlay is the rectangle of steps[cursor + 1], or
\* null with the cursor at the tip (from [A, B(R1)] at cursor 1: undo gives
\* cursor 0 and overlay R1, redo gives cursor 1).
UndoThenRedoRoundTrip ==
    /\ [](lastOp.op = "redo" /\ ~lastOp.flag /\ lastOp.prevOp = "undo"
             /\ lastOp.historyIndex = lastOp.prevIndex - 1
           => historyIndex = lastOp.prevIndex /\ history = lastOp.prevHistory)
    /\ [][(handleUndo \/ handleRedo) /\ historyIndex' # historyIndex
           => displaySelection' = IF historyIndex' + 1 < Len(history')
                                  THEN history'[historyIndex' + 2].originalRect
                                  ELSE NULL]_vars

\* C5 happens: from [A, B(R1)] at cursor 1, undo and then redo, back at cursor 1
UndoThenRedoSeen ==
    /\ lastOp.op = "redo" /\ ~lastOp.flag /\ lastOp.prevOp = "undo"
    /\ lastOp.prevIndex = 1 /\ lastOp.historyIndex = 0
    /\ Len(history) = 2 /\ history[1].originalRect = NULL
    /\ history[2].originalRect # NULL
    /\ historyIndex = 1 /\ displaySelection = NULL

\* C6: once the first image load has completed, History is never empty and the
\* cursor is an index into steps.
HistoryNonEmptyCursorValid ==
    lastOp.op # "init" =>
        /\ Len(history) >= 1
        /\ 0 <= historyIndex /\ historyIndex < Len(history)

\* C7: whenever History is non-empty, steps[0] has no selection rectangle and
\* no description.
FirstStepHasNoRect ==
    Len(history) >= 1 =>
        history[1].originalRect = NULL /\ history[1].description = NULL

\* C8: the rectangle of every step after the first was staged against, and
\* its image cropped from, the image of the step before it.
RectInPreviousStepSpace ==
    \A i \in 2..Len(history) :
        /\ history[i].originalRect # NULL
        /\ history[i].originalRect.space = history[i - 1].imageSrc
        /\ history[i].imageSrc.of = history[i - 1].imageSrc

\* C9: when an image load completes, steps is the one initial step, without
\* description and rectangle, and the cursor is 0, whatever they were before.
LoadResetsHistory ==
    lastOp.op = "load" =>
        /\ Len(history) = 1
        /\ history[1].description = NULL /\ history[1].originalRect = NULL
        /\ history[1].imageSrc.k \in {"url", "file"}
        /\ historyIndex = 0

\* C9 happens: an image load completed during an enhancement or a reveal, over
\* a History of several steps
LoadOverHistorySeen ==
    /\ lastOp.op = "load" /\ lastOp.flag
    /\ Len(lastOp.history) >= 2 /\ lastOp.historyIndex >= 1

\* C10: a confirmed selection is committed once: no commit follows a commit
\* without a confirmation in between.
OneCommitPerConfirm ==
    ~(lastOp.op = "commit" /\ lastOp.prevOp = "commit")

\* C11 as stated: when the enhance call throws, is blocked or returns no
\* candidates, the run ends with the smooth crop of the selection at twice its
\* size (200 x 150 for a selection of 100 x 75), and the commit that follows
\* the confirmation adds that image as one step and moves the cursor onto it.
EnhanceFailureGivesTwiceCrop ==
    /\ [][\A run \in runs, response \in {"throws", "blocked", "noCandidates"} :
            RunFinished(run, RunOutcome(run, response)) =>
                /\ enhancedImageSrc' =
                       cropImage(run.image, run.job.originalRect, <<"twice", 0>>)
                /\ CropSize(enhancedImageSrc') = [w |-> 200, h |-> 150]]_vars
    /\ [](lastOp.op = "commit" /\ lastOp.prevOp = "confirm" /\ enhancedImageSrc # NULL =>
            /\ Len(history) = lastOp.prevIndex + 2
            /\ historyIndex = lastOp.prevIndex + 1
            /\ history[Len(history)].imageSrc = enhancedImageSrc)

\* C11 as the code has it: when the enhance call throws, is blocked or returns
\* no candidates, serviceEnhance hands back the padded crop it was sent and the
\* run goes on as after a success: it ends in the reveal with the selection
\* cropped out of that padded crop at finalImageWidth (1024 x 768 for a
\* selection of 100 x 75), no content of the model in it; the commit that
\* follows the confirmation adds the image the reveal was started with as one
\* step after the step the confirmation found the cursor on, and moves the
\* cursor onto it.
EnhanceFailureGivesRecrop ==
    /\ [][\A run \in runs, response \in {"throws", "blocked", "noCandidates"} :
            RunFinished(run, RunOutcome(run, response)) =>
                /\ enhancedImageSrc' =
                       cropImage(run.image, run.job.originalRect, <<"same", paddingEnhance>>)
                /\ CropSize(enhancedImageSrc') = [w |-> 1024, h |-> 768]
                /\ appState' = "ENHANCED"]_vars
    /\ [][DissolveComplete /\ history' # history /\ lastOp.op = "confirm" =>
            /\ Len(history') = lastOp.historyIndex + 2
            /\ historyIndex' = lastOp.historyIndex + 1
            /\ history'[Len(history')].imageSrc = Head(dissolveTicking).enhancedImageSrc
            /\ SubSeq(history', 1, Len(history') - 1) =
                   Slice(lastOp.history, lastOp.historyIndex + 1)]_vars

\* C11 happens: describe and enhance both failed, and the step committed from
\* History [A] at cursor 0 holds the image without content of the model and the
\* fallback description: length 2, cursor 1
EnhanceFailureCommitted ==
    /\ lastOp.op = "commit" /\ lastOp.prevOp = "confirm"
    /\ Len(lastOp.prevHistory) = 1 /\ lastOp.prevIndex = 0
    /\ Len(history) = 2 /\ historyIndex = 1
    /\ history[2].imageSrc.how[1] = "same"
    /\ history[2].description = FallbackDescription

EnhanceFailureReturnsInput ==
    \A call \in runs :
        (call.pc = "settled" /\ (call.response \in EnhanceFailures \/ call.prompts = <<>>)) =>
            /\ ~call.result.threw
            /\ call.result.imageSrc = call.croppedImageDataUrl

\* C13 happens: a call with prompts, whose request the API blocked, has settled
\* with the image it was given
EnhanceFailureSettled ==
    \E call \in runs :
        /\ call.pc = "settled"
        /\ call.response = "blocked" /\ call.prompts # <<>>
        /\ call.result.imageSrc = call.croppedImageDataUrl

\* C14: every confirmed selection is eventually followed by a commit, and
\* every enhancement and every reveal eventually gives way to the idle display
\* (appState LOADED), whatever the API answers and also when a new image is
\* loaded in between.
ZoomCompletes ==
    /\ (lastOp.op = "confirm") ~> (lastOp.op = "commit")
    /\ (appState \in {"ENHANCING", "ENHANCED"}) ~> (appState = "LOADED")

\* C15: at most one enhancement run is under way: the first-time runs and the
\* regenerate chains that have started and have not yet ended (a job whose
\* animation is playing, a run or a chain awaiting the API or an image it
\* loads) are never more than one.
OneRunAtATime ==
    Cardinality(runs) + Cardinality(regens)
        + Cardinality({l \in loads : l.kind = "regenSource"})
        + (IF SelectionAnimatorMounted(enhancementJob, appState, finalEnhancementRect)
              /\ ~onCompleteCalled THEN 1 ELSE 0)
        <= 1

\* C16: no write to History is computed from a snapshot that another
\* mutation has replaced: a regenerate chain writes its step only into the
\* History its click found, and no commit confirmed before an image load
\* writes its step into the History that load has reset.
NoStaleHistoryWrite ==
    /\ lastOp.op = "regenerated" => ~lastOp.flag
    /\ lastOp.op = "commit" => lastOp.prevOp # "load"

\* C17: whenever the display is idle (appState LOADED) and no image load is
\* pending (here: nothing at all is in flight), the current image is the
\* image of the step at the cursor.
ImageMatchesHistory ==
    (appState = "LOADED" /\ InFlight = 0) =>
        /\ At(history, historyIndex) # NULL
        /\ finalImageSrc = At(history, historyIndex).imageSrc
        /\ image = At(history, historyIndex).imageSrc

\* C18: in a first-time run and in a regenerate chain alike, the describe
\* call has given its description before the enhance call is awaited, and the
\* enhance call has given its image before History is written: a run or chain
\* awaiting describe has no description, one awaiting enhance has one, and the
\* step a commit or a regenerate writes carries a description and the image
\* made from the enhance call's answer.
DescribeThenEnhanceThenCommit ==
    /\ \A run \in runs \cup regens :
          /\ run.pc \in {"describe", "enhance"}
          /\ run.pc = "describe" <=> run.description = NULL
    /\ lastOp.op \in {"commit", "regenerated"} =>
          /\ history[Len(history)].description # NULL
          /\ history[Len(history)].imageSrc.how[1] \in {"ai", "same", "twice"}
    /\ appState = "ENHANCED" =>
          /\ newHistoryEntryData # NULL => newHistoryEntryData.description # NULL
          /\ enhancedImageSrc # NULL

\* C18 happens: a first-time run has been committed and a regenerate chain has
\* then replaced its step, each after its describe and its enhance call
DescribeThenEnhanceSeen ==
    /\ lastOp.op = "regenerated" /\ lastOp.prevOp = "regenerate"
    /\ Len(history) = 2
    /\ lastOp.history[2].imageSrc.how[1] = "ai"
    /\ history[2].description # NULL
    /\ history[2].imageSrc.how = <<"same", paddingRegenerate>>
    /\ regens = {} /\ runs = {}

\* C19: appState moves only along LOADED -> ENHANCING -> ENHANCED -> LOADED:
\* a step that enters ENHANCED leaves ENHANCING, a step that enters ENHANCING
\* leaves LOADED and is the click on Process or on Re-gen, and History is
\* committed only during the reveal (appState ENHANCED).
ModeMovesAlongTheCycle ==
    [][/\ (appState' = "ENHANCED" /\ appState # "ENHANCED") => appState = "ENHANCING"
       /\ (appState' = "ENHANCING" /\ appState # "ENHANCING") =>
             /\ appState = "LOADED"
             /\ handleProcessClick \/ handleRegenerate
       /\ (lastOp' # lastOp /\ lastOp'.op = "commit") => appState = "ENHANCED"]_vars

\* C20: a click on the image while appState is ENHANCING or ENHANCED stages
\* nothing: it leaves stagedSelection, the job in flight (enhancementJob, the
\* run and the regenerate chain awaiting the API), History, the cursor and
\* appState as they were.
StageRequestIgnoredWhileBusy ==
    [][\A r \in RectIds :
          (appState \in {"ENHANCING", "ENHANCED"} /\ StageRequest(r)) =>
              UNCHANGED <<stagedSelection, enhancementJob, runs, regens, history,
                          historyIndex, appState>>]_vars

\* C20 happens: a click on the image came during the reveal, after an earlier
\* one that found no ImageDisplay either, and nothing is staged
StageRequestWhileRevealSeen ==
    /\ lastOp.op = "stage" /\ lastOp.flag /\ lastOp.prevOp = "stage"
    /\ appState = "ENHANCED" /\ enhancedImageSrc # NULL
    /\ stagedSelection = NULL

\* C21: while an enhancement run, a reveal, a regenerate chain or a GIF export
\* is under way, no selection is staged, no click on Process starts an
\* enhancement and no export is started.
BusyBlocksNewActions ==
    [][(\/ runs # {} \/ regens # {}
        \/ appState \in {"ENHANCING", "ENHANCED"}
        \/ isGeneratingGif) =>
           /\ ~(\E r \in RectIds : handleMouseDown(r) /\ stagedSelection' # stagedSelection)
           /\ ~handleProcessClick
           /\ ~handleExportGif]_vars

\* C22: a staged selection and an enhancement job never exist together: at
\* most one of stagedSelection and enhancementJob is non-null.
StagedXorJob == stagedSelection = NULL \/ enhancementJob = NULL

\* C23: a structural failure leaves History as it was and the display idle:
\* after a click on Re-gen at a step without a selection rectangle, History,
\* cursor and appState LOADED are as the click found them; and once a run or a
\* regenerate chain whose crop got no rendering context has ended and nothing
\* is in flight any more, appState is LOADED and History and cursor are as the
\* failure found them.
StructuralFailureRestores ==
    /\ (/\ lastOp.op = "regenerate"
        /\ At(lastOp.history, lastOp.historyIndex) # NULL
        /\ At(lastOp.history, lastOp.historyIndex).originalRect = NULL) =>
           /\ appState = "LOADED"
           /\ history = lastOp.history /\ historyIndex = lastOp.historyIndex
    /\ (/\ lastOp.op = "nocontext"
        /\ loads = {} /\ runs = {} /\ regens = {}
        /\ dissolveLoading = <<>> /\ dissolveTicking = <<>>) =>
           /\ appState = "LOADED"
           /\ history = lastOp.history /\ historyIndex = lastOp.historyIndex

\* C24: a load that fails (the default image's fetch fails, its blob does not
\* decode, or the dropped file is no image) leaves History and the cursor as
\* they were, and every step whose image could be loaded before can still be
\* loaded afterwards.
FailedLoadKeepsHistory ==
    [][(\/ \E f \in Files : handleFileDrop(f, FALSE)
        \/ \E l \in loads : InitialError(l)
        \/ \E l \in loads : FetchFailed(l)) =>
           /\ history' = history /\ historyIndex' = historyIndex
           /\ \A i \in 1..Len(history) :
                 Loads(history[i].imageSrc, revoked) =>
                     Loads(history'[i].imageSrc, revoked')]_vars

\* C25: a reveal reports its completion once: no completion is reported for a
\* reveal whose image the completion before it has already committed.
RevealCompletesOnce ==
    [][DissolveComplete =>
          ~(/\ lastOp.op = "commit"
            /\ Head(dissolveTicking).enhancedImageSrc = history[Len(history)].imageSrc)]_vars

\* C26: for a canvas of N pixels the shuffled index array holds every index of
\* 0..N-1 exactly once, and when the reveal reports completion the working
\* buffer (lowData) and the canvas equal the high image at every pixel.
ShuffleBijectionRevealComplete ==
    \A call \in runs :
        /\ \A p \in 0..(call.totalPixels - 1) :
              Cardinality({k \in 1..call.totalPixels : call.pixelIndices[k] = p}) = 1
        /\ call.pc = "done" =>
              /\ call.completions = 1
              /\ call.lowData = call.highData
              /\ call.canvas = call.highData

\* C26 happens: a canvas of MaxPixels pixels, the shuffle has moved every
\* index from its place, and the reveal has reported completion
ShuffledRevealDone ==
    \E call \in runs :
        /\ call.pc = "done" /\ call.totalPixels = MaxPixels
        /\ \A k \in 1..call.totalPixels : call.pixelIndices[k] # k - 1
        /\ call.lowData = call.highData

\* C27: an export started with the cursor on step k - 1 (k >= 2 active steps)
\* hands the encoder exactly (k - 1) * (30 + 15) frames, pair by pair in the
\* order of History, each pair giving 30 zoom frames of its first image and
\* then 15 hold frames of its second, none from a step beyond the cursor, and
\* finishes the encoder once.
ExportEmitsAllFrames ==
    [][handleExportGif =>
          LET gif == generateZoomGif(Slice(history, historyIndex + 1), revoked)
          IN  /\ gif.finished = 1
              /\ Len(gif.frames) = historyIndex * (30 + 15)
              /\ \A n \in 1..Len(gif.frames) :
                    LET pair == (n - 1) \div 45
                        f == (n - 1) % 45
                    IN  gif.frames[n] =
                           IF f < 30 THEN [kind |-> "zoom", image |-> pair, f |-> f]
                           ELSE [kind |-> "hold", image |-> pair + 1, f |-> f - 30]]_vars

TornDownRevealIsAbandoned ==
    [][LET pdWas == PixelDissolveMounted(appState, pixelatedImageSrc, enhancedImageSrc,
                                         finalEnhancementRect)
           pdIs == PixelDissolveMounted(appState', pixelatedImageSrc', enhancedImageSrc',
                                        finalEnhancementRect')
       IN  /\ ~pdIs => dissolveLoading' = <<>> /\ dissolveTicking' = <<>>
           /\ (~pdWas /\ pdIs) =>
                 /\ dissolveTicking' = <<>>
                 /\ dissolveLoading' = <<Closure(enhancedImageSrc', newHistoryEntryData',
                                                 history', historyIndex')>>
           /\ (dissolveTicking # <<>> \/ dissolveLoading # <<>>) => pdWas]_vars

\* a load landed while the reveal of a finished enhancement had not yet
\* called onComplete: the reveal view is gone with its result uncommitted, and
\* nothing of it is pending
RevealTornDownSeen ==
    /\ lastOp.op = "load" /\ lastOp.flag /\ lastOp.prevOp = "confirm"
    /\ lastOp.history = lastOp.prevHistory
    /\ appState = "LOADED"
    /\ enhancedImageSrc \notin {NULL, EmptyDataUrl} /\ newHistoryEntryData # NULL
    /\ pixelatedImageSrc # NULL /\ finalEnhancementRect # NULL
    /\ Len(history) = 1
    /\ dissolveLoading = <<>> /\ dissolveTicking = <<>>

\* C30: a click at a point of the displayed image stages a box (and a click
\* outside it stages none) whose extent is exactly one eighth of the image's
\* width and height, which lies within the image, and which is centred on the
\* click when the centred box fits and otherwise touches the edge it would
\* have crossed; an 800 x 600 image clicked at (400, 300) gives
\* {x: 350, y: 262.5, w: 100, h: 75}.
FixedBoxFitsAndIsCentred ==
    \A call \in runs :
        LET W == call.naturalWidth * Unit
            H == call.naturalHeight * Unit
            inside == /\ call.clickX >= 0 /\ call.clickX <= W
                      /\ call.clickY >= 0 /\ call.clickY <= H
            r == call.staged.originalRect
        IN  /\ call.pc = "ignored" => ~inside
            /\ call.pc = "staged" =>
                  /\ inside
                  /\ r.w * 8 = W /\ r.h * 8 = H
                  /\ r.x >= 0 /\ r.x + r.w <= W
                  /\ r.y >= 0 /\ r.y + r.h <= H
                  /\ IF 2 * call.clickX < r.w THEN r.x = 0
                     ELSE IF 2 * call.clickX + r.w > 2 * W THEN r.x + r.w = W
                     ELSE 2 * r.x + r.w = 2 * call.clickX
                  /\ IF 2 * call.clickY < r.h THEN r.y = 0
                     ELSE IF 2 * call.clickY + r.h > 2 * H THEN r.y + r.h = H
                     ELSE 2 * r.y + r.h = 2 * call.clickY
                  /\ (call.naturalWidth = 800 /\ call.naturalHeight = 600) =>
                        r = [x |-> 350 * Unit, y |-> 262 * Unit + Unit \div 2,
                             w |-> 100 * Unit, h |-> 75 * Unit]

\* a click near the right edge and off the vertical centre line staged a box
\* shifted to the right edge and centred vertically
ShiftedBoxStaged ==
    \E call \in runs :
        /\ call.pc = "staged"
        /\ 2 * call.clickX + call.staged.originalRect.w > 2 * call.naturalWidth * Unit
        /\ call.staged.originalRect.x + call.staged.originalRect.w = call.naturalWidth * Unit
        /\ 2 * call.staged.originalRect.y + call.staged.originalRect.h = 2 * call.clickY
        /\ call.staged.originalRect.y > 0

\* C31: for a selection within the image and the padding 0.25 or 0.5, the
\* padded rectangle contains the selection, lies within the image, and is
\* the selection grown by padding * w to the left and right and padding * h
\* up and down, cut at the image's edges.
PaddedRectContainsAndFits ==
    \A call \in runs :
        call.pc = "padded" =>
            LET r == call.originalRect
                p == call.paddedRect
                W == call.sourceImageWidth
                H == call.sourceImageHeight
                growX == (r.w * call.padding) \div 100
                growY == (r.h * call.padding) \div 100
            IN  /\ call.padding \in {25, 50}
                /\ p.x <= r.x /\ r.x + r.w <= p.x + p.w
                /\ p.y <= r.y /\ r.y + r.h <= p.y + p.h
                /\ 0 <= p.x /\ p.x + p.w <= W
                /\ 0 <= p.y /\ p.y + p.h <= H
                /\ p.x = (IF r.x - growX < 0 THEN 0 ELSE r.x - growX)
                /\ p.y = (IF r.y - growY < 0 THEN 0 ELSE r.y - growY)
                /\ p.x + p.w = (IF r.x + r.w + growX > W THEN W ELSE r.x + r.w + growX)
                /\ p.y + p.h = (IF r.y + r.h + growY > H THEN H ELSE r.y + r.h + growY)

\* a selection near the right edge was padded by half its size: the padding
\* is cut at the right edge, whole on the left, and whole above and below
PaddedRectCutAtEdgeSeen ==
    \E call \in runs :
        /\ call.pc = "padded" /\ call.padding = 50
        /\ call.originalRect.w > 0 /\ call.originalRect.h > 0
        /\ call.paddedRect.x + call.paddedRect.w = call.sourceImageWidth
        /\ call.originalRect.x + call.originalRect.w < call.sourceImageWidth
        /\ 2 * (call.originalRect.x - call.paddedRect.x) = call.originalRect.w
        /\ call.paddedRect.h = 2 * call.originalRect.h

\* C32: interpolateRect(A, B, 0) is A and interpolateRect(A, B, 1) is B,
\* component by component, for all rectangles A and B.
InterpolateEndsExact ==
    \A call \in runs :
        call.pc = "returned" =>
            /\ call.t = 0 => call.rect = call.start
            /\ call.t = 1 => call.rect = call.end

\* C33: easeInOutCubic(0) = 0, easeInOutCubic(0.5) = 0.5, easeInOutCubic(1) = 1,
\* and t1 <= t2 gives easeInOutCubic(t1) <= easeInOutCubic(t2) for arguments in
\* [0, 1], the frame fractions f / 30 among them.
EaseEndsAndMonotone ==
    \A call \in runs :
        call.pc = "returned" =>
            LET one == EaseGrid * EaseGrid * EaseGrid
            IN  /\ call.k1 = 0 => call.v1 = 0
                /\ 2 * call.k1 = EaseGrid => 2 * call.v1 = one
                /\ call.k1 = EaseGrid => call.v1 = one
                /\ 0 <= call.v1 /\ call.v1 <= one
                /\ call.k1 <= call.k2 => call.v1 <= call.v2

\* the function was applied to the frame fraction 14 / 30 and to 0.5, on either
\* side of the change of formula
EaseAcrossHalfSeen ==
    \E call \in runs :
        /\ call.pc = "returned"
        /\ call.k1 * 30 = 14 * EaseGrid /\ 2 * call.k2 = EaseGrid
        /\ call.v1 < call.v2 /\ 2 * call.v2 = EaseGrid * EaseGrid * EaseGrid

\* C34: a staging click and a click on Cancel leave the steps, the cursor,
\* the current image and appState as they were; a staging click that is not
\* ignored makes its box the staged selection, whatever was staged before,
\* and Cancel leaves nothing staged.
StagingLeavesHistory ==
    [][/\ ((\E r \in RectIds : handleMouseDown(r)) \/ CancelSelection) =>
             UNCHANGED <<history, historyIndex, image, finalImageSrc, appState>>
       /\ \A r \in RectIds :
             (/\ handleMouseDown(r)
              /\ ~(appState = "ENHANCING" \/ isGeneratingGif \/ dispImage = NULL)) =>
                 stagedSelection' =
                     [originalRect |-> [id |-> r, space |-> dispImage], screenRect |-> r]
       /\ CancelSelection => stagedSelection' = NULL]_vars

\* a selection is staged with the cursor behind the tip: Undo, which is
\* offered only while nothing is staged, found the History that is still there
StagedBehindTipSeen ==
    /\ stagedSelection # NULL
    /\ appState = "LOADED"
    /\ Len(history) = 2 /\ historyIndex = 0
    /\ lastOp.op = "undo" /\ ~lastOp.flag
    /\ lastOp.history = history /\ lastOp.historyIndex = 1

\* C35: from a click on Process that found the cursor c behind the tip until
\* the next operation on History, the steps are those the click found up to
\* c, the cursor is c, which is the tip, and Redo is refused; and the commit
\* that follows, whatever the run gave, found those steps and no more.
ConfirmTruncatesEagerly ==
    /\ (lastOp.op = "confirm" /\ lastOp.historyIndex < Len(lastOp.history) - 1) =>
          /\ history = Slice(lastOp.history, lastOp.historyIndex + 1)
          /\ historyIndex = lastOp.historyIndex
          /\ historyIndex = Len(history) - 1
          /\ RedoRefused
    /\ (/\ lastOp.op = "commit" /\ lastOp.prevOp = "confirm"
        /\ lastOp.prevIndex < Len(lastOp.prevHistory) - 1) =>
          /\ lastOp.history = Slice(lastOp.prevHistory, lastOp.prevIndex + 1)
          /\ lastOp.historyIndex = lastOp.prevIndex

\* Process was clicked with two steps and the cursor at the first: the run has
\* not begun and the second step is gone
UndoneBranchTruncatedSeen ==
    /\ lastOp.op = "confirm"
    /\ Len(lastOp.history) = 2 /\ lastOp.historyIndex = 0
    /\ Len(history) = 1 /\ historyIndex = 0
    /\ appState = "ENHANCING" /\ runs = {}

\* C36: a run started at cursor c gives serviceDescribeImage the descriptions
\* of steps[0..c] that are not null, in order, and a regenerate chain clicked
\* at cursor c those of steps[0..c-1]; the prompts either gives serviceEnhance
\* are those descriptions' prompts, '' for a description without one,
\* followed by the prompt of the description just obtained: one more than the
\* prior descriptions, never none.
PromptListFollowsHistory ==
    [][LET NonNull(h) ==
               SelectSeq([i \in 1..Len(h) |-> h[i].description], LAMBDA d : d # NULL)
           PromptOrEmpty(d) == IF "prompt" \in DOMAIN d THEN d.prompt ELSE ""
           PromptsAsSaid(call) ==
               LET p == Prompts(call.descriptionHistory, call.description)
                   n == Len(call.descriptionHistory)
               IN  /\ Len(p) = n + 1 /\ p # <<>>
                   /\ \A i \in 1..n : p[i] = PromptOrEmpty(call.descriptionHistory[i])
                   /\ p[n + 1] = PromptOrEmpty(call.description)
                   /\ \A i \in 1..(n + 1) : p[i] \in {"", "p1"}
           Lists(rs, gs) ==
               /\ \A run \in rs : run.pc = "enhance" => PromptsAsSaid(run)
               /\ \A g \in gs :
                     /\ g.descriptionHistory = NonNull(SubSeq(g.history, 1, g.historyIndex))
                     /\ g.pc = "enhance" => PromptsAsSaid(g)
       IN  /\ Lists(runs, regens)
           /\ Lists(runs', regens')
           /\ runEnhancementJob =>
                 \A run \in runs' \ runs :
                     run.descriptionHistory = NonNull(SubSeq(history, 1, historyIndex + 1))
           /\ handleRegenerate =>
                 \A l \in loads' \ loads :
                     l.history = history /\ l.historyIndex = historyIndex
           /\ \A l \in loads :
                 RegenSourceLoaded(l) =>
                     \A g \in regens' \ regens :
                         g.history = l.history /\ g.historyIndex = l.historyIndex
           /\ \A run \in runs, response \in DescribeResponses :
                 RunDescribed(run, RunDescription(run, response)) =>
                     \A after \in runs' \ runs :
                         after.descriptionHistory = run.descriptionHistory]_vars

\* a run started at the second step, whose description has no prompt, has
\* been described and is about to call serviceEnhance with the prompts '' and p1
PromptsWithEmptyPriorSeen ==
    \E run \in runs :
        /\ run.pc = "enhance"
        /\ Len(history) = 2 /\ historyIndex = 1
        /\ history[1].description = NULL /\ history[2].description # NULL
        /\ run.descriptionHistory = <<history[2].description>>
        /\ Prompts(run.descriptionHistory, run.description) = <<"", "p1">>

\* C37: with per = the least whole number with 60 * per >= N, a reveal over
\* N >= 1 pixels has, after k ticks, revealed the first min(k * per, N) pixels
\* of the shuffled order and no other; a tick before the end reveals per
\* pixels not revealed before, or those that remain, and takes none back; all
\* N are revealed after 60 ticks at most, and the tick after that reports
\* completion.
RevealAdvancesByBatches ==
    [][LET Per(n) == CHOOSE c \in 1..n : 60 * c >= n /\ 60 * (c - 1) < n
           Least(a, b) == IF a < b THEN a ELSE b
           Revealed(c) ==
               {q \in 0..(c.totalPixels - 1) : c.lowData[q + 1] = c.highData[q + 1]}
           FirstOf(c, m) == {c.pixelIndices[i + 1] : i \in 0..(m - 1)}
           Counted(c) ==
               /\ Revealed(c) = FirstOf(c, c.currentPixel)
               /\ Cardinality(Revealed(c)) = c.currentPixel
               /\ \E k \in 0..60 : c.currentPixel = Least(k * Per(c.totalPixels), c.totalPixels)
               /\ 60 * Per(c.totalPixels) >= c.totalPixels
               /\ c.pc = "done" => c.currentPixel = c.totalPixels /\ c.completions = 1
       IN  /\ \A c \in runs : Counted(c)
           /\ \A c \in runs' : Counted(c)
           /\ \A c \in runs :
                 animate(c) =>
                     \A d \in runs' :
                         /\ Revealed(c) \subseteq Revealed(d)
                         /\ d.pixelIndices = c.pixelIndices
                         /\ IF c.currentPixel < c.totalPixels
                            THEN /\ d.currentPixel =
                                      Least(c.currentPixel + Per(c.totalPixels), c.totalPixels)
                                 /\ Revealed(d) \ Revealed(c) =
                                      {c.pixelIndices[i + 1] :
                                          i \in c.currentPixel..(d.currentPixel - 1)}
                                 /\ d.pc = "animate" /\ d.completions = 0
                            ELSE /\ d.currentPixel = c.currentPixel
                                 /\ d.pc = "done"]_vars

\* a canvas of 61 pixels, two to a tick, is wholly revealed: the last
\* revealing tick, the 31st, had a single pixel left
LastBatchShortSeen ==
    \E call \in runs :
        /\ call.pc = "animate"
        /\ call.totalPixels = RevealFrames + 1
        /\ call.currentPixel = call.totalPixels
        /\ call.lowData = call.highData

\* C38: from the start of an export to its end the steps and the cursor stay
\* as they are, whatever the user does meanwhile: no step taken while the
\* exporting flag is set, the one that sets it and the one that clears it
\* included, changes History.
ExportExcludesHistoryEdits ==
    [][(isGeneratingGif \/ isGeneratingGif') => UNCHANGED <<history, historyIndex>>]_vars

====
